---------------------------- MODULE Spec2Model ----------------------------
(***************************************************************************)
(* A model of the 2D constrained Delaunay triangulation engine (cdt2d) and *)
(* of its centroid hole filter.                                            *)
(*                                                                         *)
(* Conventions.  Source arrays are 0-based; sequences here are 1-based, so *)
(* the element the source calls a[i] is a[i+1] here.  Vertex indices kept  *)
(* in triangles, stars, chains and edges are the source's 0-based indices. *)
(* A point is <<x, y>>: the source's p[0] is p[1] here, p[1] is p[2].      *)
(*                                                                         *)
(* Arithmetic.  The triangulation is run on small integer coordinates, for *)
(* which every product and sum of orient2d and inCircle is an integer far  *)
(* below 2^53 and therefore exact in the source's doubles; those           *)
(* predicates are modelled with integer arithmetic.                        *)
(* pointInPolygon and triangleCentroid divide; their numbers are modelled  *)
(* as binary floating-point values that round after every operation.      *)
(***************************************************************************)
EXTENDS Integers, Sequences, FiniteSets, TLC

\* ------------------------------------------------------------------------
\* Bounds of the model
\* ------------------------------------------------------------------------
\* coordinates of input points range over 0..MaxCoord
MaxCoord == 2
\* number of input points of a triangulation call
MaxPts == 5
\* number of constrained edges of a triangulation call
MaxEdges == 2
\* bits of the significand of a number of the hole filter
MantBits == 3
\* number of vertices of the ring of a point-in-polygon test
MaxRing == 3
\* number of triangles handed to the hole filter
MaxTris == 2
\* number of hole rings handed to the hole filter
MaxHoles == 2
\* number of calls of cdt2d made one after another
MaxCalls == 3

\* ------------------------------------------------------------------------
\* Small helpers
\* ------------------------------------------------------------------------
Min2(a, b) == IF a < b THEN a ELSE b
Max2(a, b) == IF a > b THEN a ELSE b
Last(s) == s[Len(s)]
Front(s) == SubSeq(s, 1, Len(s) - 1)
Range(s) == {s[i] : i \in 1..Len(s)}

\* ------------------------------------------------------------------------
\* Binary search bounds.  The argument p is the sequence of comparator
\* results c(a[m], y), m = 0..n-1, in array order; the loops probe it exactly
\* as the source probes c.  Indices l, h, i and the results are 0-based.
\* ------------------------------------------------------------------------
RECURSIVE GeLoop(_, _, _, _)
GeLoop(p, l, h, i) ==
  IF l <= h
  THEN LET m == (l + h) \div 2
       IN IF p[m + 1] >= 0 THEN GeLoop(p, l, m - 1, m) ELSE GeLoop(p, m + 1, h, i)
  ELSE i
bsearchGe(p) == GeLoop(p, 0, Len(p) - 1, Len(p))

\* a faulty bsearchGt that stops at an element equal to the query
bsearchGtOrEqual(p) == GeLoop(p, 0, Len(p) - 1, Len(p))

RECURSIVE GtLoop(_, _, _, _)
GtLoop(p, l, h, i) ==
  IF l <= h
  THEN LET m == (l + h) \div 2
       IN IF p[m + 1] > 0 THEN GtLoop(p, l, m - 1, m) ELSE GtLoop(p, m + 1, h, i)
  ELSE i
bsearchGt(p) == GtLoop(p, 0, Len(p) - 1, Len(p))

RECURSIVE LtLoop(_, _, _, _)
LtLoop(p, l, h, i) ==
  IF l <= h
  THEN LET m == (l + h) \div 2
       IN IF p[m + 1] < 0 THEN LtLoop(p, m + 1, h, m) ELSE LtLoop(p, l, m - 1, i)
  ELSE i
bsearchLt(p) == LtLoop(p, 0, Len(p) - 1, -1)

RECURSIVE LeLoop(_, _, _, _)
LeLoop(p, l, h, i) ==
  IF l <= h
  THEN LET m == (l + h) \div 2
       IN IF p[m + 1] <= 0 THEN LeLoop(p, m + 1, h, m) ELSE LeLoop(p, l, m - 1, i)
  ELSE i
bsearchLe(p) == LeLoop(p, 0, Len(p) - 1, -1)

RECURSIVE EqLoop(_, _, _)
EqLoop(p, l, h) ==
  IF l <= h
  THEN LET m == (l + h) \div 2
       IN IF p[m + 1] = 0 THEN m
          ELSE IF p[m + 1] <= 0 THEN EqLoop(p, m + 1, h) ELSE EqLoop(p, l, m - 1)
  ELSE -1
bsearchEq(p) == EqLoop(p, 0, Len(p) - 1)

\* ------------------------------------------------------------------------
\* Geometry predicates
\* ------------------------------------------------------------------------
\* a faulty orient2d with the two products exchanged
orient2dSwapped(a, b, c) == (a[1] - c[1]) * (b[2] - c[2]) - (a[2] - c[2]) * (b[1] - c[1])

orient2d(a, b, c) == (a[2] - c[2]) * (b[1] - c[1]) - (a[1] - c[1]) * (b[2] - c[2])

\* a faulty inCircle without the lifts
inCircleFlat(a, b, c, d) ==
  (a[1] - d[1]) * (b[2] - d[2]) - (b[1] - d[1]) * (a[2] - d[2])
  + (b[1] - d[1]) * (c[2] - d[2]) - (c[1] - d[1]) * (b[2] - d[2])
  + (c[1] - d[1]) * (a[2] - d[2]) - (a[1] - d[1]) * (c[2] - d[2])

\* a faulty test that finds every fourth point inside the circle
inCircleAlways(a, b, c, d) == -1

inCircle(a, b, c, d) ==
  LET adx == a[1] - d[1]
      ady == a[2] - d[2]
      bdx == b[1] - d[1]
      bdy == b[2] - d[2]
      cdx == c[1] - d[1]
      cdy == c[2] - d[2]
      abdet == adx * bdy - bdx * ady
      bcdet == bdx * cdy - cdx * bdy
      cadet == cdx * ady - adx * cdy
      alift == adx * adx + ady * ady
      blift == bdx * bdx + bdy * bdy
      clift == cdx * cdx + cdy * cdy
  IN alift * bcdet + blift * cadet + clift * abdet

\* ------------------------------------------------------------------------
\* Triangulation data structure: stars[v+1] is the flat list of pairs of
\* vertex v; cedges is the canonical constraint-edge array.
\* ------------------------------------------------------------------------
\* a - b || c - d : the first non-zero difference
compareLex(a, b) == IF a[1] - b[1] # 0 THEN a[1] - b[1] ELSE a[2] - b[2]

\* a faulty lookup that finds no edge constrained
isConstraintNever(cedges, i, j) == FALSE

isConstraint(cedges, i, j) ==
  LET e == <<Min2(i, j), Max2(i, j)>>
  IN bsearchEq([m \in 1..Len(cedges) |-> compareLex(cedges[m], e)]) >= 0

removePairNever(list, j, k) == list

\* removePair: the first pair (j, k) of the flat list is overwritten by the
\* last pair and the list is shortened by two; no pair, no change.
removePair(list, j, k) ==
  LET n == Len(list)
      hits == {q \in 1..(n \div 2) : list[2 * q - 1] = j /\ list[2 * q] = k}
  IN IF hits = {} THEN list
     ELSE LET q == CHOOSE h \in hits : \A g \in hits : h <= g
          IN SubSeq([list EXCEPT ![2 * q - 1] = list[n - 1], ![2 * q] = list[n]],
                    1, n - 2)

removeTriangle(stars, i, j, k) ==
  LET s1 == [stars EXCEPT ![i + 1] = removePair(@, j, k)]
      s2 == [s1 EXCEPT ![j + 1] = removePair(@, k, i)]
  IN [s2 EXCEPT ![k + 1] = removePair(@, i, j)]

addTriangleOnce(stars, i, j, k) == [stars EXCEPT ![i + 1] = @ \o <<j, k>>]

addTriangle(stars, i, j, k) ==
  LET s1 == [stars EXCEPT ![i + 1] = @ \o <<j, k>>]
      s2 == [s1 EXCEPT ![j + 1] = @ \o <<k, i>>]
  IN [s2 EXCEPT ![k + 1] = @ \o <<i, j>>]

\* opposite(j, i): the first pair of star i whose second entry is j gives
\* the opposite vertex (its first entry); -1 when there is none.
opposite(stars, j, i) ==
  LET list == stars[i + 1]
      hits == {q \in 1..(Len(list) \div 2) : list[2 * q] = j}
  IN IF hits = {} THEN -1
     ELSE list[2 * (CHOOSE h \in hits : \A g \in hits : h <= g) - 1]

flip(stars, i, j) ==
  LET a == opposite(stars, i, j)
      b == opposite(stars, j, i)
      s1 == removeTriangle(stars, i, j, a)
      s2 == removeTriangle(s1, j, i, b)
      s3 == addTriangle(s2, i, b, a)
  IN addTriangle(s3, j, a, b)

\* cells(): for i ascending, for each pair (s, t) of star i in list order,
\* emit [i, s, t] when i is smaller than both s and t.
RECURSIVE StarCells(_, _, _)
StarCells(i, list, q) ==
  IF 2 * q > Len(list) THEN <<>>
  ELSE LET s == list[2 * q - 1]
           t == list[2 * q]
       IN (IF i < Min2(s, t) THEN <<(<<i, s, t>>)>> ELSE <<>>)
          \o StarCells(i, list, q + 1)

RECURSIVE CellsFrom(_, _)
CellsFrom(stars, v) ==
  IF v > Len(stars) THEN <<>>
  ELSE StarCells(v - 1, stars[v], 1) \o CellsFrom(stars, v + 1)

CellsTwice(stars) == CellsFrom(stars, 1) \o CellsFrom(stars, 1)

Cells(stars) == CellsFrom(stars, 1)

\* ------------------------------------------------------------------------
\* Monotone triangulation (sweep line)
\* ------------------------------------------------------------------------
EVENT_POINT == 0
EVENT_END == 1
EVENT_START == 2

\* the b of a point event (null in the source)
Null == <<>>

\* a faulty comparison that leaves out the kind of the events
compareEventNoKind(a, b) ==
  LET d == IF a.a[1] - b.a[1] # 0 THEN a.a[1] - b.a[1] ELSE a.a[2] - b.a[2]
  IN IF d # 0 THEN d ELSE a.idx - b.idx

compareEvent(a, b) ==
  LET d == IF a.a[1] - b.a[1] # 0 THEN a.a[1] - b.a[1]
           ELSE IF a.a[2] - b.a[2] # 0 THEN a.a[2] - b.a[2]
           ELSE a.type - b.type
  IN IF d # 0 THEN d
     ELSE IF a.type # EVENT_POINT /\ a.b # Null /\ b.b # Null
               /\ orient2d(a.a, a.b, b.b) # 0
          THEN orient2d(a.a, a.b, b.b)
          ELSE a.idx - b.idx

\* Array.prototype.sort with a comparator is a stable sort; it is modelled by
\* a stable insertion sort: each element goes right after the last element
\* of the sorted prefix that does not compare greater than it.
RECURSIVE InsertPos(_, _, _)
InsertPos(sorted, x, k) ==
  IF k = 0 THEN 0
  ELSE IF compareEvent(sorted[k], x) <= 0 THEN k
  ELSE InsertPos(sorted, x, k - 1)

RECURSIVE SortEvents(_)
SortEvents(evs) ==
  IF evs = <<>> THEN <<>>
  ELSE LET sorted == SortEvents(Front(evs))
           x == Last(evs)
           k == InsertPos(sorted, x, Len(sorted))
       IN SubSeq(sorted, 1, k) \o <<x>> \o SubSeq(sorted, k + 1, Len(sorted))

testPoint(hull, p) == orient2d(hull.a, hull.b, p)

\* a faulty lower-chain loop that pushes a triangle with a repeated index
RECURSIVE LowerPopRepeat(_, _, _, _, _)
LowerPopRepeat(points, ids, m, p, idx) ==
  IF m > 1 /\ orient2d(points[ids[m - 1] + 1], points[ids[m] + 1], p) > 0
  THEN LET r == LowerPopRepeat(points, ids, m - 1, p, idx)
       IN [m |-> r.m, out |-> <<(<<ids[m], ids[m], idx>>)>> \o r.out]
  ELSE [m |-> m, out |-> <<>>]

\* the while loop that pops the lower chain: the result is the remaining
\* length m and the triangles pushed
RECURSIVE LowerPop(_, _, _, _, _)
LowerPop(points, ids, m, p, idx) ==
  IF m > 1 /\ orient2d(points[ids[m - 1] + 1], points[ids[m] + 1], p) > 0
  THEN LET r == LowerPop(points, ids, m - 1, p, idx)
       IN [m |-> r.m, out |-> <<(<<ids[m], ids[m - 1], idx>>)>> \o r.out]
  ELSE [m |-> m, out |-> <<>>]

\* a faulty upper-chain loop that never pops: no triangle above the sweep
UpperPopNothing(points, ids, m, p, idx) == [m |-> m, out |-> <<>>]

RECURSIVE UpperPop(_, _, _, _, _)
UpperPop(points, ids, m, p, idx) ==
  IF m > 1 /\ orient2d(points[ids[m - 1] + 1], points[ids[m] + 1], p) < 0
  THEN LET r == UpperPop(points, ids, m - 1, p, idx)
       IN [m |-> r.m, out |-> <<(<<ids[m - 1], ids[m], idx>>)>> \o r.out]
  ELSE [m |-> m, out |-> <<>>]

\* the body of addPoint's for loop for hull number i (0-based), i < hi
RECURSIVE AddPointLoop(_, _, _, _, _, _, _)
AddPointLoop(cells, hulls, points, p, idx, i, hi) ==
  IF i >= hi THEN [cells |-> cells, hulls |-> hulls, threw |-> FALSE]
  ELSE IF i < 0 THEN [cells |-> cells, hulls |-> hulls, threw |-> TRUE]
  ELSE LET hull == hulls[i + 1]
           lo == LowerPop(points, hull.lowerIds, Len(hull.lowerIds), p, idx)
           up == UpperPop(points, hull.upperIds, Len(hull.upperIds), p, idx)
           h2 == [hull EXCEPT
                    !.lowerIds = SubSeq(hull.lowerIds, 1, lo.m) \o <<idx>>,
                    !.upperIds = SubSeq(hull.upperIds, 1, up.m) \o <<idx>>]
       IN AddPointLoop(cells \o lo.out \o up.out, [hulls EXCEPT ![i + 1] = h2],
                       points, p, idx, i + 1, hi)

addPoint(cells, hulls, points, p, idx) ==
  LET sg == [m \in 1..Len(hulls) |-> testPoint(hulls[m], p)]
      lo == bsearchLt(sg)
      hi == bsearchGt(sg)
  IN AddPointLoop(cells, hulls, points, p, idx, lo, hi)

findSplit(hull, edge) ==
  LET d1 == IF hull.a[1] < edge.a[1] THEN orient2d(hull.a, hull.b, edge.a)
            ELSE orient2d(edge.b, edge.a, hull.a)
      d2 == IF edge.b[1] < hull.b[1] THEN orient2d(hull.a, hull.b, edge.b)
            ELSE orient2d(edge.b, edge.a, hull.b)
  IN IF d1 # 0 THEN d1
     ELSE IF d2 # 0 THEN d2
     ELSE hull.idx - edge.idx

\* a faulty splitHulls that puts the new hull first in the sequence
splitHullsFirst(cells, hulls, event) ==
  [cells |-> cells,
   hulls |-> << [a |-> event.a, b |-> event.b, idx |-> event.idx,
                 lowerIds |-> <<>>, upperIds |-> <<>>] >> \o hulls,
   threw |-> FALSE]

\* splitHulls.  hulls[-1] is undefined in the source and reading its
\* upperIds throws; the chains of a hull are never empty once the first
\* event (always a point event) has been processed.
splitHulls(cells, hulls, event) ==
  LET splitIdx == bsearchLe([m \in 1..Len(hulls) |-> findSplit(hulls[m], event)])
  IN IF splitIdx < 0 \/ hulls[splitIdx + 1].upperIds = <<>>
     THEN [cells |-> cells, hulls |-> hulls, threw |-> TRUE]
     ELSE LET hull == hulls[splitIdx + 1]
              upperIds == hull.upperIds
              x == Last(upperIds)
              fresh == [a |-> event.a, b |-> event.b, idx |-> event.idx,
                        lowerIds |-> <<x>>, upperIds |-> upperIds]
          IN [cells |-> cells,
              hulls |-> SubSeq(hulls, 1, splitIdx)
                        \o <<[hull EXCEPT !.upperIds = <<x>>], fresh>>
                        \o SubSeq(hulls, splitIdx + 2, Len(hulls)),
              threw |-> FALSE]

\* mergeHulls searches with the event's endpoints swapped.  When the search
\* finds no hull (or hull 0), hulls[mergeIdx - 1] is undefined and the
\* assignment to its upperIds throws.
mergeHulls(cells, hulls, event) ==
  LET swapped == [event EXCEPT !.a = event.b, !.b = event.a]
      mergeIdx == bsearchEq([m \in 1..Len(hulls) |-> findSplit(hulls[m], swapped)])
  IN IF mergeIdx < 1
     THEN [cells |-> cells, hulls |-> hulls, threw |-> TRUE]
     ELSE LET lower == hulls[mergeIdx]
              upper == hulls[mergeIdx + 1]
          IN [cells |-> cells,
              hulls |-> SubSeq(hulls, 1, mergeIdx - 1)
                        \o <<[lower EXCEPT !.upperIds = upper.upperIds]>>
                        \o SubSeq(hulls, mergeIdx + 2, Len(hulls)),
              threw |-> FALSE]

\* the point events, then for each edge its start and end event
PointEvents(points) ==
  [i \in 1..Len(points) |-> [a |-> points[i], b |-> Null, type |-> EVENT_POINT, idx |-> i - 1]]

\* a faulty sweep that creates no edge event: constraints are ignored
EdgeEventsNone(points, edges, i) == <<>>

RECURSIVE EdgeEvents(_, _, _)
EdgeEvents(points, edges, i) ==
  IF i > Len(edges) THEN <<>>
  ELSE LET e == edges[i]
           a == points[e[1] + 1]
           b == points[e[2] + 1]
       IN (IF a[1] < b[1]
           THEN << [a |-> a, b |-> b, type |-> EVENT_START, idx |-> i - 1],
                   [a |-> b, b |-> a, type |-> EVENT_END, idx |-> i - 1] >>
           ELSE IF a[1] > b[1]
           THEN << [a |-> b, b |-> a, type |-> EVENT_START, idx |-> i - 1],
                   [a |-> a, b |-> b, type |-> EVENT_END, idx |-> i - 1] >>
           ELSE <<>>)
          \o EdgeEvents(points, edges, i + 1)

\* points[e[k]] is undefined for an index outside 0..n-1, and reading its
\* coordinate throws
EdgesInRange(points, edges) ==
  \A i \in 1..Len(edges) : \A k \in 1..2 : edges[i][k] \in 0..(Len(points) - 1)

SweepEvents(points, edges) == SortEvents(PointEvents(points) \o EdgeEvents(points, edges, 1))

\* The sentinel hull.  The source anchors it at minX = x0 - (1 + |x0|) * 2^-52,
\* x0 the smallest x of any event.  Every use of the sentinel reads only the
\* sign of an orient2d whose first two arguments are its a = [minX, 1] and
\* b = [minX, 0], which is the sign of minX - p.x for a point p with
\* p.x >= x0; minX = x0 - 1 gives that same sign for every such p.
InitialHull(events) ==
  LET minX == events[1].a[1] - 1
  IN << [a |-> <<minX, 1>>, b |-> <<minX, 0>>, idx |-> -1,
         lowerIds |-> <<>>, upperIds |-> <<>>] >>

\* the event object after its iteration: mergeHulls (lines 290-292) swaps
\* the two endpoint fields of an end event and never swaps them back
EventAfter(event) ==
  IF event.type = EVENT_END THEN [event EXCEPT !.a = event.b, !.b = event.a]
  ELSE event

\* the body of the event loop
ProcessEventOp(cells, hulls, points, event) ==
  IF event.type = EVENT_POINT THEN addPoint(cells, hulls, points, event.a, event.idx)
  ELSE IF event.type = EVENT_START THEN splitHulls(cells, hulls, event)
  ELSE mergeHulls(cells, hulls, event)

RECURSIVE SweepLoop(_, _, _, _, _)
SweepLoop(cells, hulls, points, events, k) ==
  IF k > Len(events) THEN [cells |-> cells, hulls |-> hulls, threw |-> FALSE]
  ELSE LET r == ProcessEventOp(cells, hulls, points, events[k])
       IN IF r.threw THEN r ELSE SweepLoop(r.cells, r.hulls, points, events, k + 1)

\* monotoneTriangulate as a function of its arguments
monotoneTriangulate(points, edges) ==
  IF ~EdgesInRange(points, edges) \/ points = <<>>
  THEN [cells |-> <<>>, hulls |-> <<>>, threw |-> TRUE]
  ELSE LET events == SweepEvents(points, edges)
       IN SweepLoop(<<>>, InitialHull(events), points, events, 1)

\* ------------------------------------------------------------------------
\* Delaunay refinement
\* ------------------------------------------------------------------------
\* a faulty test that never stacks the edge it is given
testFlipNothing(points, cedges, stars, stack, a, b, x) == stack

\* testFlip: the stack after the call
testFlip(points, cedges, stars, stack, a, b, x) ==
  LET y == opposite(stars, a, b)
  IN IF y < 0 THEN stack
     ELSE LET a2 == IF b < a THEN b ELSE a
              b2 == IF b < a THEN a ELSE b
              x2 == IF b < a THEN y ELSE x
              y2 == IF b < a THEN x ELSE y
          IN IF isConstraint(cedges, a2, b2) THEN stack
             ELSE IF inCircle(points[a2 + 1], points[b2 + 1],
                              points[x2 + 1], points[y2 + 1]) < 0
                  THEN stack \o <<a2, b2>>
                  ELSE stack

\* a faulty first loop that pushes no edge: refinement then flips nothing
InitPushNothing(points, cedges, star, a, q) == <<>>

\* first loop of delaunayRefine, pair q (1-based) of star a: what it pushes
InitPush(points, cedges, star, a, q) ==
  LET b == star[2 * q]
      x == star[2 * q - 1]
      hits == {k \in 1..(Len(star) \div 2) : star[2 * k - 1] = b}
      y == IF hits = {} THEN -1
           ELSE star[2 * (CHOOSE h \in hits : \A g \in hits : h <= g)]
  IN IF b < a THEN <<>>
     ELSE IF isConstraint(cedges, a, b) THEN <<>>
     ELSE IF y < 0 THEN <<>>
     ELSE IF inCircle(points[a + 1], points[b + 1], points[x + 1], points[y + 1]) < 0
          THEN <<a, b>>
          ELSE <<>>

RECURSIVE InitStackFrom(_, _, _, _, _)
InitStackFrom(points, cedges, stars, a, q) ==
  IF a >= Len(points) THEN <<>>
  ELSE IF 2 * q > Len(stars[a + 1]) THEN InitStackFrom(points, cedges, stars, a + 1, 1)
  ELSE InitPush(points, cedges, stars[a + 1], a, q)
       \o InitStackFrom(points, cedges, stars, a, q + 1)

InitStack(points, cedges, stars) == InitStackFrom(points, cedges, stars, 0, 1)

\* the scan of star a in the main loop: every pair is visited and the last
\* match wins; pair (s, t) sets y when s = b, else x when t = b
LastOf(S) == CHOOSE h \in S : \A g \in S : g <= h
ScanY(star, b) ==
  LET hits == {q \in 1..(Len(star) \div 2) : star[2 * q - 1] = b}
  IN IF hits = {} THEN -1 ELSE star[2 * LastOf(hits)]
ScanX(star, b) ==
  LET hits == {q \in 1..(Len(star) \div 2) : star[2 * q - 1] # b /\ star[2 * q] = b}
  IN IF hits = {} THEN -1 ELSE star[2 * LastOf(hits) - 1]

\* does the popped edge (a, b) get flipped
WillFlip(points, stars, a, b) ==
  LET x == ScanX(stars[a + 1], b)
      y == ScanY(stars[a + 1], b)
  IN /\ x >= 0
     /\ y >= 0
     /\ inCircle(points[a + 1], points[b + 1], points[x + 1], points[y + 1]) < 0

\* one iteration of the main loop of delaunayRefine.  flip reads
\* stars[opposite] and throws when an opposite vertex is missing (-1).
RefineIter(points, cedges, stars, stack) ==
  LET b == stack[Len(stack)]
      a == stack[Len(stack) - 1]
      rest == SubSeq(stack, 1, Len(stack) - 2)
      x == ScanX(stars[a + 1], b)
      y == ScanY(stars[a + 1], b)
  IN IF ~WillFlip(points, stars, a, b)
     THEN [stars |-> stars, stack |-> rest, threw |-> FALSE, flipped |-> FALSE]
     ELSE IF opposite(stars, a, b) < 0 \/ opposite(stars, b, a) < 0
     THEN [stars |-> stars, stack |-> rest, threw |-> TRUE, flipped |-> FALSE]
     ELSE LET st == flip(stars, a, b)
              k1 == testFlip(points, cedges, st, rest, x, a, y)
              k2 == testFlip(points, cedges, st, k1, a, y, x)
              k3 == testFlip(points, cedges, st, k2, y, b, x)
              k4 == testFlip(points, cedges, st, k3, b, x, y)
          IN [stars |-> st, stack |-> k4, threw |-> FALSE, flipped |-> TRUE]

RECURSIVE RefineLoop(_, _, _, _)
RefineLoop(points, cedges, stars, stack) ==
  IF stack = <<>> THEN [stars |-> stars, threw |-> FALSE]
  ELSE LET r == RefineIter(points, cedges, stars, stack)
       IN IF r.threw THEN [stars |-> r.stars, threw |-> TRUE]
          ELSE RefineLoop(points, cedges, r.stars, r.stack)

delaunayRefine(points, cedges, stars) ==
  RefineLoop(points, cedges, stars, InitStack(points, cedges, stars))

\* ------------------------------------------------------------------------
\* Face classification
\* ------------------------------------------------------------------------
compareCell(a, b) ==
  IF a[1] - b[1] # 0 THEN a[1] - b[1]
  ELSE IF a[2] - b[2] # 0 THEN a[2] - b[2]
  ELSE a[3] - b[3]

\* the rotation applied by indexCells and by locateCell
Canonical(c) ==
  LET x == c[1]
      y == c[2]
      z == c[3]
  IN IF y < z
     THEN (IF y < x THEN <<y, z, x>> ELSE c)
     ELSE (IF z < x THEN <<z, x, y>> ELSE c)

locateCell(cells, a, b, c) ==
  LET key == Canonical(<<a, b, c>>)
  IN IF key[1] < 0 THEN -1
     ELSE bsearchEq([m \in 1..Len(cells) |-> compareCell(cells[m], key)])

RECURSIVE CellInsertPos(_, _, _)
CellInsertPos(sorted, x, k) ==
  IF k = 0 THEN 0
  ELSE IF compareCell(sorted[k], x) <= 0 THEN k
  ELSE CellInsertPos(sorted, x, k - 1)

\* cells.sort(compareCell), a stable sort
RECURSIVE SortCells(_)
SortCells(cs) ==
  IF cs = <<>> THEN <<>>
  ELSE LET sorted == SortCells(Front(cs))
           x == Last(cs)
           k == CellInsertPos(sorted, x, Len(sorted))
       IN SubSeq(sorted, 1, k) \o <<x>> \o SubSeq(sorted, k + 1, Len(sorted))

\* the seeding loop of indexCells over slot k = 3 * i + j (0-based)
SeedLoopNothing(cells, neighbor, constraint, k, acc) == acc

RECURSIVE SeedLoop(_, _, _, _, _)
SeedLoop(cells, neighbor, constraint, k, acc) ==
  IF k >= 3 * Len(cells) THEN acc
  ELSE LET i == k \div 3
           a == neighbor[k + 1]
           b == constraint[k + 1]
       IN SeedLoop(cells, neighbor, constraint, k + 1,
            IF a < 0
            THEN (IF b THEN [acc EXCEPT !.next = @ \o <<i>>]
                  ELSE [acc EXCEPT !.active = @ \o <<i>>, !.flags[i + 1] = 1])
            ELSE acc)

indexCells(stars, cedges) ==
  LET raw == Cells(stars)
      cells == SortCells([m \in 1..Len(raw) |-> Canonical(raw[m])])
      nc == Len(cells)
      neighbor == [k \in 1..(3 * nc) |->
                     LET c == cells[(k - 1) \div 3 + 1]
                         j == (k - 1) % 3
                         x == c[j + 1]
                         y == c[((j + 1) % 3) + 1]
                     IN locateCell(cells, y, x, opposite(stars, y, x))]
      constraint == [k \in 1..(3 * nc) |->
                       LET c == cells[(k - 1) \div 3 + 1]
                           j == (k - 1) % 3
                       IN isConstraint(cedges, c[j + 1], c[((j + 1) % 3) + 1])]
      seeded == SeedLoop(cells, neighbor, constraint, 0,
                  [flags |-> [m \in 1..nc |-> 0], active |-> <<>>, next |-> <<>>])
  IN [cells |-> cells, neighbor |-> neighbor, constraint |-> constraint,
      flags |-> seeded.flags, active |-> seeded.active, next |-> seeded.next]

\* the for loop over the three edges of the popped triangle t
RECURSIVE VisitEdges(_, _, _, _)
VisitEdges(ix, t, j, side) ==
  IF j >= 3 THEN ix
  ELSE LET f == ix.neighbor[3 * t + j + 1]
       IN VisitEdges(
            IF f >= 0 /\ ix.flags[f + 1] = 0
            THEN (IF ix.constraint[3 * t + j + 1]
                  THEN [ix EXCEPT !.next = @ \o <<f>>]
                  ELSE [ix EXCEPT !.active = @ \o <<f>>, !.flags[f + 1] = side])
            ELSE ix,
            t, j + 1, side)

\* a faulty pop without the test of the flag against -side
ClassifyPopAlways(ix, side) ==
  LET t == Last(ix.active)
  IN VisitEdges([ix EXCEPT !.active = Front(@), !.flags[t + 1] = side], t, 0, side)

\* one iteration of the inner while loop: pop t from active
ClassifyPop(ix, side) ==
  LET t == Last(ix.active)
      popped == [ix EXCEPT !.active = Front(@)]
  IN IF ix.flags[t + 1] = -side THEN popped
     ELSE VisitEdges([popped EXCEPT !.flags[t + 1] = side], t, 0, side)

\* a faulty swap that drops the deferred fringe
ClassifySwapDrop(ix) == [ix EXCEPT !.active = <<>>, !.next = <<>>]

\* the tail of the outer loop: [active, next] = [next, active]; next.length = 0
ClassifySwap(ix) == [ix EXCEPT !.active = ix.next, !.next = <<>>]

RECURSIVE FloodFill(_, _)
FloodFill(ix, side) ==
  IF ix.active # <<>> THEN FloodFill(ClassifyPop(ix, side), side)
  ELSE IF ix.next # <<>> THEN FloodFill(ClassifySwap(ix), -side)
  ELSE ix

\* a faulty filter that keeps the flags above the target
RECURSIVE FilterCellsAbove(_, _, _, _)
FilterCellsAbove(cells, flags, target, i) ==
  IF i > Len(cells) THEN <<>>
  ELSE (IF flags[i] > target THEN <<cells[i]>> ELSE <<>>)
       \o FilterCellsAbove(cells, flags, target, i + 1)

\* cells.filter((_, i) => flags[i] === target)
RECURSIVE FilterCells(_, _, _, _)
FilterCells(cells, flags, target, i) ==
  IF i > Len(cells) THEN <<>>
  ELSE (IF flags[i] = target THEN <<cells[i]>> ELSE <<>>)
       \o FilterCells(cells, flags, target, i + 1)

classifyFaces(stars, cedges, target) ==
  LET index == indexCells(stars, cedges)
  IN IF target = 0 THEN index.cells
     ELSE LET done == FloodFill(index, 1)
          IN FilterCells(done.cells, done.flags, target, 1)

\* ------------------------------------------------------------------------
\* Main CDT function
\* ------------------------------------------------------------------------
\* a faulty canonicalizeEdge that keeps the order of the endpoints
canonicalizeEdgeKeep(e) == e

canonicalizeEdge(e) == <<Min2(e[1], e[2]), Max2(e[1], e[2])>>

RECURSIVE EdgeInsertPos(_, _, _)
EdgeInsertPos(sorted, x, k) ==
  IF k = 0 THEN 0
  ELSE IF compareLex(sorted[k], x) <= 0 THEN k
  ELSE EdgeInsertPos(sorted, x, k - 1)

\* sort(compareLex), a stable sort
RECURSIVE SortEdges(_)
SortEdges(es) ==
  IF es = <<>> THEN <<>>
  ELSE LET sorted == SortEdges(Front(es))
           x == Last(es)
           k == EdgeInsertPos(sorted, x, Len(sorted))
       IN SubSeq(sorted, 1, k) \o <<x>> \o SubSeq(sorted, k + 1, Len(sorted))

canonicalizeEdges(edges) == SortEdges([m \in 1..Len(edges) |-> canonicalizeEdge(edges[m])])

\* a faulty canonicalisation that rewrites and sorts the array it is given
EdgesCanonicalizedInPlace(edges) == canonicalizeEdges(edges)

\* The array the caller passed, after canonicalizeEdges: map builds a new
\* array of new pairs and sort reorders that new array, so the argument
\* keeps its elements, their order and the order of their endpoints.
EdgesAfterCanonicalize(edges) == edges

\* new Triangulation(n, ...) followed by addTriangle for every sweep cell
RECURSIVE LoadCells(_, _, _)
LoadCells(stars, cells, k) ==
  IF k > Len(cells) THEN stars
  ELSE LoadCells(addTriangle(stars, cells[k][1], cells[k][2], cells[k][3]), cells, k + 1)

EmptyStars(n) == [v \in 1..n |-> <<>>]

\* which path of cdt2d the options select
\* a faulty entry that never takes the fast path
FastPathNever(points, interior, exterior) == FALSE

FastPath(points, interior, exterior) == (~interior /\ ~exterior) \/ Len(points) = 0
NeedsStructure(delaunay, interior, exterior) == delaunay \/ interior # exterior

\* cdt2d as a function of its arguments: the triangles returned, or threw
cdt2d(points, edges, delaunay, interior, exterior) ==
  IF FastPath(points, interior, exterior) THEN [out |-> <<>>, threw |-> FALSE]
  ELSE LET sweep == monotoneTriangulate(points, edges)
       IN IF sweep.threw THEN [out |-> <<>>, threw |-> TRUE]
          ELSE IF ~NeedsStructure(delaunay, interior, exterior)
          THEN [out |-> sweep.cells, threw |-> FALSE]
          ELSE LET ce == canonicalizeEdges(edges)
                   loaded == LoadCells(EmptyStars(Len(points)), sweep.cells, 1)
                   refined == IF delaunay THEN delaunayRefine(points, ce, loaded)
                              ELSE [stars |-> loaded, threw |-> FALSE]
               IN IF refined.threw THEN [out |-> <<>>, threw |-> TRUE]
                  ELSE IF ~exterior
                  THEN [out |-> classifyFaces(refined.stars, ce, -1), threw |-> FALSE]
                  ELSE IF ~interior
                  THEN [out |-> classifyFaces(refined.stars, ce, 1), threw |-> FALSE]
                  ELSE [out |-> Cells(refined.stars), threw |-> FALSE]

\* ------------------------------------------------------------------------
\* Numbers of the hole filter
\* ------------------------------------------------------------------------
\* pointInPolygon and triangleCentroid divide, so their numbers are not
\* integers.  A JavaScript number is a binary floating-point value whose
\* significand has 53 bits, and every operation rounds its exact result to
\* the nearest such value, ties to the even significand.  The model keeps
\* that rule with significands of MantBits bits.  A number is <<m, e>>, the
\* value m * 2^e, with m odd or <<0, 0>>; exponents are not bounded, as no
\* operation here overflows or underflows in a double.
RECURSIVE Pow2(_)
Pow2(k) == IF k = 0 THEN 1 ELSE 2 * Pow2(k - 1)

Abs(n) == IF n < 0 THEN -n ELSE n

RECURSIVE FNorm(_, _)
FNorm(m, e) ==
  IF m = 0 THEN <<0, 0>>
  ELSE IF m % 2 = 0 THEN FNorm(m \div 2, e + 1)
  ELSE <<m, e>>

Num(k) == FNorm(k, 0)

\* num / den scaled by a power of two 2^-k into [2^(MantBits-1), 2^MantBits)
RECURSIVE FScale(_, _, _)
FScale(num, den, k) ==
  IF num >= den * Pow2(MantBits) THEN FScale(num, 2 * den, k + 1)
  ELSE IF num < den * Pow2(MantBits - 1) THEN FScale(2 * num, den, k - 1)
  ELSE [num |-> num, den |-> den, k |-> k]

\* the number nearest to (n / d) * 2^e, d > 0
FRound(n, d, e) ==
  IF n = 0 THEN <<0, 0>>
  ELSE LET s == FScale(Abs(n), d, 0)
           q == s.num \div s.den
           r == s.num % s.den
           m == IF 2 * r > s.den \/ (2 * r = s.den /\ q % 2 = 1) THEN q + 1 ELSE q
       IN FNorm(IF n < 0 THEN -m ELSE m, e + s.k)

\* x and y as integers over their common exponent
FAlign(x, y) ==
  LET e == Min2(x[2], y[2])
  IN [x |-> x[1] * Pow2(x[2] - e), y |-> y[1] * Pow2(y[2] - e), e |-> e]

FAdd(x, y) == LET al == FAlign(x, y) IN FRound(al.x + al.y, 1, al.e)
FSub(x, y) == LET al == FAlign(x, y) IN FRound(al.x - al.y, 1, al.e)
FMul(x, y) == FRound(x[1] * y[1], 1, x[2] + y[2])
\* y is not zero
FDiv(x, y) == FRound(IF y[1] < 0 THEN -x[1] ELSE x[1], Abs(y[1]), x[2] - y[2])
FLt(x, y) == LET al == FAlign(x, y) IN al.x < al.y
FGt(x, y) == FLt(y, x)

\* ------------------------------------------------------------------------
\* Point-in-polygon test and hole filter
\* ------------------------------------------------------------------------
\* the test of the loop body for the edge from vertex vj to vertex vi; the
\* division is evaluated only when the first operand of && holds, and then
\* yj # yi
Crosses(point, vi, vj) ==
  LET x == point[1]
      y == point[2]
      xi == vi[1]
      yi == vi[2]
      xj == vj[1]
      yj == vj[2]
  IN IF FGt(yi, y) # FGt(yj, y)
     THEN FLt(x, FAdd(FDiv(FMul(FSub(xj, xi), FSub(y, yi)), FSub(yj, yi)), xi))
     ELSE FALSE

\* the for loop from index i (0-based) with its trailing index j
RECURSIVE PipLoop(_, _, _, _, _)
PipLoop(point, polygon, i, j, inside) ==
  IF i >= Len(polygon) THEN inside
  ELSE PipLoop(point, polygon, i + 1, i,
               IF Crosses(point, polygon[i + 1], polygon[j + 1]) THEN ~inside ELSE inside)

pointInPolygon(point, polygon) == PipLoop(point, polygon, 0, Len(polygon) - 1, FALSE)

\* a ring of integer vertices as numbers
NumRing(r) == [k \in 1..Len(r) |-> <<Num(r[k][1]), Num(r[k][2])>>]

\* the vertices have integer coordinates; the sums and the quotient round
triangleCentroid(points, tri) ==
  LET a == points[tri[1] + 1]
      b == points[tri[2] + 1]
      c == points[tri[3] + 1]
  IN <<FDiv(FAdd(FAdd(Num(a[1]), Num(b[1])), Num(c[1])), Num(3)),
       FDiv(FAdd(FAdd(Num(a[2]), Num(b[2])), Num(c[2])), Num(3))>>

\* a faulty loop that stops after the first hole
InFirstHole(centroid, holes, h) ==
  h <= Len(holes) /\ pointInPolygon(centroid, NumRing(holes[h]))

\* the for loop over the holes from hole h (1-based): TRUE when some hole
\* from h on contains the centroid
RECURSIVE InSomeHole(_, _, _)
InSomeHole(centroid, holes, h) ==
  IF h > Len(holes) THEN FALSE
  ELSE IF pointInPolygon(centroid, NumRing(holes[h])) THEN TRUE
  ELSE InSomeHole(centroid, holes, h + 1)

\* the callback of triangles.filter; holes is undefined when not given
KeepTriangle(points, tri, boundary, holesGiven, holes) ==
  LET centroid == triangleCentroid(points, tri)
  IN IF ~pointInPolygon(centroid, NumRing(boundary)) THEN FALSE
     ELSE IF holesGiven /\ InSomeHole(centroid, holes, 1) THEN FALSE
     ELSE TRUE

RECURSIVE FilterFrom(_, _, _, _, _, _)
FilterFrom(points, triangles, boundary, holesGiven, holes, k) ==
  IF k > Len(triangles) THEN <<>>
  ELSE (IF KeepTriangle(points, triangles[k], boundary, holesGiven, holes)
        THEN <<triangles[k]>> ELSE <<>>)
       \o FilterFrom(points, triangles, boundary, holesGiven, holes, k + 1)

filterTriangles(points, triangles, boundary, holesGiven, holes) ==
  FilterFrom(points, triangles, boundary, holesGiven, holes, 1)

\* ------------------------------------------------------------------------
\* The calls as state machines: cdt2d
\* ------------------------------------------------------------------------
VARIABLES
  points, edges, delaunay, interior, exterior,  \* the arguments of cdt2d
  pc,                                           \* where the call is
  events, ei, hulls, cells,                     \* monotoneTriangulate
  cedges, stars, stack,                         \* Triangulation, delaunayRefine
  index, side,                                  \* classifyFaces
  result,                                       \* the value returned
  point, polygon, pipI, pipJ, inside,           \* pointInPolygon
  triangles, boundary, holesGiven, holes,       \* the arguments of filterTriangles
  ti, kept,                                     \* the filter's position and output
  log,                                          \* the calls of cdt2d that have returned
  given,                                        \* the arguments as the caller passed them
  fargs, fout                                   \* a call of a predicate or a search

options == <<delaunay, interior, exterior>>
args == <<points, edges, options>>
sweepVars == <<events, ei, hulls, cells>>
triVars == <<cedges, stars, stack>>
faceVars == <<index, side>>
pipVars == <<point, polygon, pipI, pipJ, inside>>
filterArgs == <<triangles, boundary, holesGiven, holes>>
filterVars == <<filterArgs, ti, kept>>
history == <<log, given>>
helperVars == <<fargs, fout>>
utilVars == <<pipVars, filterVars, history, helperVars>>
vars == <<args, pc, sweepVars, triVars, faceVars, result, utilVars>>

NoIndex == [cells |-> <<>>, neighbor |-> <<>>, constraint |-> <<>>,
            flags |-> <<>>, active |-> <<>>, next |-> <<>>]

\* the locals of a call of cdt2d before it starts
NoCall ==
  /\ events = <<>> /\ ei = 0 /\ hulls = <<>> /\ cells = <<>>
  /\ cedges = <<>> /\ stars = <<>> /\ stack = <<>>
  /\ index = NoIndex /\ side = 1
  /\ result = <<>>

\* no call of pointInPolygon
NoPip ==
  /\ point = <<Num(0), Num(0)>> /\ polygon = <<>>
  /\ pipI = 0 /\ pipJ = 0 /\ inside = FALSE

\* no call of filterTriangles
NoFilter ==
  /\ triangles = <<>> /\ boundary = <<>> /\ holesGiven = FALSE /\ holes = <<>>
  /\ ti = 0 /\ kept = <<>>

\* the arguments of the current call
ThisCall ==
  [points |-> points, edges |-> edges,
   delaunay |-> delaunay, interior |-> interior, exterior |-> exterior]

\* no earlier call of cdt2d; the caller's copy of what it passes
NoLog == log = <<>> /\ given = ThisCall

\* no call of a geometric predicate or of a binary search on its own
NoHelper == fargs = <<>> /\ fout = <<>>

\* the state at the entry of cdt2d
Entry ==
  /\ pc = "start"
  /\ NoCall
  /\ NoPip
  /\ NoFilter
  /\ NoLog
  /\ NoHelper

\* cdt2d, lines 562-564: the fast paths
ReturnEmpty ==
  /\ pc = "start"
  /\ FastPath(points, interior, exterior)
  /\ result' = <<>>
  /\ pc' = "done"
  /\ UNCHANGED <<args, utilVars, sweepVars, triVars, faceVars>>

\* monotoneTriangulate up to the event loop: create and sort the events,
\* initialise the hull and the empty cell list.  Reading points[e[k]][0] for an index out of range,
\* or events[0].a for an empty event list, throws.
BeginSweep ==
  /\ pc = "start"
  /\ ~FastPath(points, interior, exterior)
  /\ IF EdgesInRange(points, edges) /\ SweepEvents(points, edges) # <<>>
     THEN /\ events' = SweepEvents(points, edges)
          /\ hulls' = InitialHull(events')
          /\ cells' = <<>>
          /\ ei' = 1
          /\ pc' = "sweep"
     ELSE /\ pc' = "threw"
          /\ UNCHANGED <<events, hulls, cells, ei>>
  /\ UNCHANGED <<args, utilVars, triVars, faceVars, result>>

\* one iteration of the event loop; mergeHulls leaves the endpoints of its
\* event swapped
ProcessEvent ==
  /\ pc = "sweep"
  /\ ei <= Len(events)
  /\ LET r == ProcessEventOp(cells, hulls, points, events[ei])
     IN /\ cells' = r.cells
        /\ hulls' = r.hulls
        /\ pc' = IF r.threw THEN "threw" ELSE "sweep"
  /\ events' = [events EXCEPT ![ei] = EventAfter(@)]
  /\ ei' = ei + 1
  /\ UNCHANGED <<args, utilVars, triVars, faceVars, result>>

\* cdt2d, line 589: no refinement, no classification
ReturnCells ==
  /\ pc = "sweep"
  /\ ei > Len(events)
  /\ ~NeedsStructure(delaunay, interior, exterior)
  /\ result' = cells
  /\ pc' = "done"
  /\ UNCHANGED <<args, utilVars, sweepVars, triVars, faceVars>>

\* cdt2d, lines 570-574: build the Triangulation from the sweep's cells
BuildTriangulation ==
  /\ pc = "sweep"
  /\ ei > Len(events)
  /\ NeedsStructure(delaunay, interior, exterior)
  /\ cedges' = canonicalizeEdges(edges)
  /\ edges' = EdgesAfterCanonicalize(edges)
  /\ stars' = LoadCells(EmptyStars(Len(points)), cells, 1)
  /\ pc' = IF delaunay THEN "built" ELSE "select"
  /\ UNCHANGED <<points, options, utilVars, sweepVars, stack, faceVars, result>>

\* delaunayRefine, first loop: stack the edges that are not locally Delaunay
RefineInit ==
  /\ pc = "built"
  /\ stack' = InitStack(points, cedges, stars)
  /\ pc' = IF stack' = <<>> THEN "select" ELSE "refine"
  /\ UNCHANGED <<args, utilVars, sweepVars, cedges, stars, faceVars, result>>

\* delaunayRefine, one iteration of the main loop
RefineStep ==
  /\ pc = "refine"
  /\ stack # <<>>
  /\ LET r == RefineIter(points, cedges, stars, stack)
     IN /\ stars' = r.stars
        /\ stack' = r.stack
        /\ pc' = IF r.threw THEN "threw"
                 ELSE IF r.stack = <<>> THEN "select" ELSE "refine"
  /\ UNCHANGED <<args, utilVars, sweepVars, cedges, faceVars, result>>

\* cdt2d, line 585: interior and exterior both wanted
ReturnAll ==
  /\ pc = "select"
  /\ interior /\ exterior
  /\ result' = Cells(stars)
  /\ pc' = "done"
  /\ UNCHANGED <<args, utilVars, sweepVars, triVars, faceVars>>

\* the target flag cdt2d passes to classifyFaces
Target == IF ~exterior THEN -1 ELSE 1

\* classifyFaces up to the flood fill: indexCells
IndexCellsStep ==
  /\ pc = "select"
  /\ ~(interior /\ exterior)
  /\ index' = indexCells(stars, cedges)
  /\ side' = 1
  /\ pc' = IF index'.active # <<>> \/ index'.next # <<>> THEN "fill" ELSE "filter"
  /\ UNCHANGED <<args, utilVars, sweepVars, triVars, result>>

\* the inner loop of the flood fill: pop one triangle
ClassifyPopStep ==
  /\ pc = "fill"
  /\ index.active # <<>>
  /\ index' = ClassifyPop(index, side)
  /\ UNCHANGED <<args, utilVars, pc, sweepVars, triVars, side, result>>

\* the inner loop has drained: swap the fringes, flip the side, test the
\* outer loop's condition
ClassifySwapStep ==
  /\ pc = "fill"
  /\ index.active = <<>>
  /\ index' = ClassifySwap(index)
  /\ side' = -side
  /\ pc' = IF index'.active # <<>> \/ index'.next # <<>> THEN "fill" ELSE "filter"
  /\ UNCHANGED <<args, utilVars, sweepVars, triVars, result>>

\* classifyFaces, line 526
ReturnFiltered ==
  /\ pc = "filter"
  /\ result' = FilterCells(index.cells, index.flags, Target, 1)
  /\ pc' = "done"
  /\ UNCHANGED <<args, utilVars, sweepVars, triVars, faceVars>>

Next ==
  \/ ReturnEmpty
  \/ BeginSweep
  \/ ProcessEvent
  \/ ReturnCells
  \/ BuildTriangulation
  \/ RefineInit
  \/ RefineStep
  \/ ReturnAll
  \/ IndexCellsStep
  \/ ClassifyPopStep
  \/ ClassifySwapStep
  \/ ReturnFiltered

\* ------------------------------------------------------------------------
\* The calls as state machines: one call of cdt2d after another
\* ------------------------------------------------------------------------
\* The caller keeps the returned list and calls cdt2d again.  Every local
\* of cdt2d is created by the call that uses it (lines 303, 329, 332, 367,
\* 464-468, 571), so the new call is given nothing but its arguments; what
\* the previous call left behind is still in the variables when it starts.
CallWith(c) ==
  /\ pc = "done"
  /\ log' = Append(log, [call |-> ThisCall, result |-> result])
  /\ given' = c
  /\ points' = c.points
  /\ edges' = c.edges
  /\ delaunay' = c.delaunay
  /\ interior' = c.interior
  /\ exterior' = c.exterior
  /\ pc' = "start"
  /\ UNCHANGED <<sweepVars, triVars, faceVars, result, pipVars, filterVars, helperVars>>

\* ------------------------------------------------------------------------
\* The calls as state machines: pointInPolygon
\* ------------------------------------------------------------------------
\* one iteration of the for loop
PipStep ==
  /\ pc = "pip"
  /\ pipI < Len(polygon)
  /\ inside' = IF Crosses(point, NumRing(polygon)[pipI + 1], NumRing(polygon)[pipJ + 1])
               THEN ~inside ELSE inside
  /\ pipJ' = pipI
  /\ pipI' = pipI + 1
  /\ UNCHANGED <<args, pc, sweepVars, triVars, faceVars, result, point, polygon, filterVars, history, helperVars>>

\* the loop has ended: return inside
PipReturn ==
  /\ pc = "pip"
  /\ pipI >= Len(polygon)
  /\ pc' = "pipDone"
  /\ UNCHANGED <<args, sweepVars, triVars, faceVars, result, utilVars>>

NextPip ==
  \/ PipStep
  \/ PipReturn

\* ------------------------------------------------------------------------
\* The calls as state machines: filterTriangles
\* ------------------------------------------------------------------------
\* the callback on the next triangle: filter appends it to the new array
\* when the callback returns true, and never writes to its input
FilterStep ==
  /\ pc = "filterTriangles"
  /\ ti < Len(triangles)
  /\ kept' = IF KeepTriangle(points, triangles[ti + 1], boundary, holesGiven, holes)
             THEN Append(kept, triangles[ti + 1]) ELSE kept
  /\ ti' = ti + 1
  /\ UNCHANGED <<args, pc, sweepVars, triVars, faceVars, result, pipVars, filterArgs, history, helperVars>>

\* filter has visited every triangle: return the new array
FilterReturn ==
  /\ pc = "filterTriangles"
  /\ ti >= Len(triangles)
  /\ pc' = "filterDone"
  /\ UNCHANGED <<args, sweepVars, triVars, faceVars, result, utilVars>>

NextFilter ==
  \/ FilterStep
  \/ FilterReturn

\* ------------------------------------------------------------------------
\* Geometry used to state the properties (independent of the predicates of
\* the program)
\* ------------------------------------------------------------------------
\* The calls as state machines: orient2d and inCircle on their own
\* ------------------------------------------------------------------------
Orient2dCall ==
  /\ pc = "predicate"
  /\ fout' = [fn |-> "orient2d", val |-> orient2d(fargs.a, fargs.b, fargs.c)]
  /\ pc' = "predicateDone"
  /\ UNCHANGED <<args, sweepVars, triVars, faceVars, result, pipVars, filterVars, history, fargs>>

InCircleCall ==
  /\ pc = "predicate"
  /\ fout' = [fn |-> "inCircle", val |-> inCircle(fargs.a, fargs.b, fargs.c, fargs.d)]
  /\ pc' = "predicateDone"
  /\ UNCHANGED <<args, sweepVars, triVars, faceVars, result, pipVars, filterVars, history, fargs>>

NextPredicate ==
  \/ Orient2dCall
  \/ InCircleCall

\* The five searches, called with a sorted array of numbers, a query number
\* and the comparator (x, y) => x - y
byDifference(x, y) == x - y

Probes(a, y) == [m \in 1..Len(a) |-> byDifference(a[m], y)]

SearchCall(fn, val) ==
  /\ pc = "search"
  /\ fout' = [fn |-> fn, val |-> val]
  /\ pc' = "searchDone"
  /\ UNCHANGED <<args, sweepVars, triVars, faceVars, result, pipVars, filterVars, history, fargs>>

BsearchGeCall == SearchCall("bsearchGe", bsearchGe(Probes(fargs.a, fargs.y)))
BsearchGtCall == SearchCall("bsearchGt", bsearchGt(Probes(fargs.a, fargs.y)))
BsearchLtCall == SearchCall("bsearchLt", bsearchLt(Probes(fargs.a, fargs.y)))
BsearchLeCall == SearchCall("bsearchLe", bsearchLe(Probes(fargs.a, fargs.y)))
BsearchEqCall == SearchCall("bsearchEq", bsearchEq(Probes(fargs.a, fargs.y)))

NextSearch ==
  \/ BsearchGeCall
  \/ BsearchGtCall
  \/ BsearchLtCall
  \/ BsearchLeCall
  \/ BsearchEqCall

\* ------------------------------------------------------------------------
\* twice the signed area of (a, b, c), positive for a left turn
Cross(a, b, c) == (b[1] - a[1]) * (c[2] - a[2]) - (b[2] - a[2]) * (c[1] - a[1])

Collinear(a, b, c) == Cross(a, b, c) = 0

Sq(x) == x * x

\* The circumcentre of a proper triangle (a, b, c) is (CcX / CcD, CcY / CcD).
CcD(a, b, c) == 2 * (a[1] * (b[2] - c[2]) + b[1] * (c[2] - a[2]) + c[1] * (a[2] - b[2]))
CcX(a, b, c) ==
  (Sq(a[1]) + Sq(a[2])) * (b[2] - c[2]) + (Sq(b[1]) + Sq(b[2])) * (c[2] - a[2])
  + (Sq(c[1]) + Sq(c[2])) * (a[2] - b[2])
CcY(a, b, c) ==
  (Sq(a[1]) + Sq(a[2])) * (c[1] - b[1]) + (Sq(b[1]) + Sq(b[2])) * (a[1] - c[1])
  + (Sq(c[1]) + Sq(c[2])) * (b[1] - a[1])

\* squared distance of p to the circumcentre of (a, b, c), times CcD^2
CcDist2(a, b, c, p) ==
  Sq(p[1] * CcD(a, b, c) - CcX(a, b, c)) + Sq(p[2] * CcD(a, b, c) - CcY(a, b, c))

\* d lies strictly inside the circle through a, b, c
StrictlyInsideCircumcircle(a, b, c, d) ==
  /\ ~Collinear(a, b, c)
  /\ CcDist2(a, b, c, d) < CcDist2(a, b, c, a)

OnCircumcircle(a, b, c, d) ==
  /\ ~Collinear(a, b, c)
  /\ CcDist2(a, b, c, d) = CcDist2(a, b, c, a)

\* p lies on the segment from a to b and is neither endpoint
OnOpenSegment(p, a, b) ==
  /\ Collinear(a, b, p)
  /\ p # a /\ p # b
  /\ Min2(a[1], b[1]) <= p[1] /\ p[1] <= Max2(a[1], b[1])
  /\ Min2(a[2], b[2]) <= p[2] /\ p[2] <= Max2(a[2], b[2])

\* the segments ab and cd cross at a point interior to both
ProperCross(a, b, c, d) ==
  /\ Cross(a, b, c) * Cross(a, b, d) < 0
  /\ Cross(c, d, a) * Cross(c, d, b) < 0

\* the constraints form a planar straight-line graph on the points: every
\* edge joins two different points, passes through no other input point and
\* crosses no other edge
Planar(ps, es) ==
  /\ \A i \in 1..Len(es) :
       /\ es[i][1] \in 0..(Len(ps) - 1) /\ es[i][2] \in 0..(Len(ps) - 1)
       /\ es[i][1] # es[i][2]
  /\ \A i \in 1..Len(es) : \A k \in 1..Len(ps) :
       ~OnOpenSegment(ps[k], ps[es[i][1] + 1], ps[es[i][2] + 1])
  /\ \A i, j \in 1..Len(es) :
       ~ProperCross(ps[es[i][1] + 1], ps[es[i][2] + 1], ps[es[j][1] + 1], ps[es[j][2] + 1])

AllCollinear(ps) == \A i, j, k \in 1..Len(ps) : Collinear(ps[i], ps[j], ps[k])

Pt(i) == points[i + 1]
Verts(t) == {t[1], t[2], t[3]}
TriEdges(t) == {{t[1], t[2]}, {t[2], t[3]}, {t[3], t[1]}}
\* a triangle up to rotation: the rotation that starts at its smallest index
Rot(t) ==
  IF t[1] <= t[2] /\ t[1] <= t[3] THEN t
  ELSE IF t[2] <= t[1] /\ t[2] <= t[3] THEN <<t[2], t[3], t[1]>>
  ELSE <<t[3], t[1], t[2]>>
TriSet(ts) == {Rot(ts[i]) : i \in 1..Len(ts)}

Returned == pc = "done"
DefaultOptions == delaunay /\ interior /\ exterior

\* ------------------------------------------------------------------------
\* Inputs
\* ------------------------------------------------------------------------
Coord == 0..MaxCoord
Grid == Coord \X Coord

\* all sequences of at most n elements of S
RECURSIVE SeqsUpTo(_, _)
SeqsUpTo(S, n) ==
  IF n = 0 THEN {<<>>}
  ELSE LET shorter == SeqsUpTo(S, n - 1)
       IN shorter \cup {Append(q, x) : q \in {r \in shorter : Len(r) = n - 1}, x \in S}

Distinct(s) == \A i, j \in 1..Len(s) : i # j => s[i] # s[j]

DistinctSeqs(S, n) == {s \in SeqsUpTo(S, n) : Distinct(s)}

\* Unconstrained inputs: up to MaxPts pairwise distinct grid points and no
\* edges, with the default options; every other option combination on the
\* inputs of at most MaxPts - 2 points.
Init ==
  /\ points \in DistinctSeqs(Grid, MaxPts)
  /\ edges = <<>>
  /\ delaunay \in BOOLEAN
  /\ interior \in BOOLEAN
  /\ exterior \in BOOLEAN
  /\ (delaunay /\ interior /\ exterior) \/ Len(points) <= MaxPts - 2
  /\ Entry

Spec == Init /\ [][Next]_vars

\* Constrained inputs: pairwise distinct points of a strip of the grid and
\* constraint edges with in-range, distinct endpoints, in either
\* orientation; two edges on at most MaxPts - 2 points, one edge otherwise.
\* interior and exterior are both enabled, and every other combination is
\* tried on the inputs of at most MaxPts - 2 points and one edge.
Strip == Coord \X (0..(MaxCoord - 1))

\* the corners of the unit square, counter-clockwise from the origin
UnitSquare == << <<0, 0>>, <<1, 0>>, <<1, 1>>, <<0, 1>> >>

EdgePairs(n) == {e \in (0..(n - 1)) \X (0..(n - 1)) : e[1] # e[2]}

InitCon ==
  /\ points \in DistinctSeqs(Strip, MaxPts)
  /\ edges \in SeqsUpTo(EdgePairs(Len(points)), MaxEdges)
  /\ Len(edges) <= 1 \/ Len(points) <= MaxPts - 2
  /\ delaunay \in BOOLEAN
  /\ interior \in BOOLEAN
  /\ exterior \in BOOLEAN
  /\ (interior /\ exterior) \/ (Len(points) <= MaxPts - 2 /\ Len(edges) <= 1)
  /\ Entry

SpecCon == InitCon /\ [][Next]_vars

\* Arbitrary inputs: points of the strip that may repeat, edges over the
\* indices 0..n, where n is out of range, self-loops included, and every
\* option combination.  The points and edges number at most MaxPts - 1
\* together, except on the unit square, which takes up to MaxEdges edges
\* (crossing diagonals among them).
AnyPairs(n) == (0..n) \X (0..n)

InitAny ==
  /\ points \in SeqsUpTo(Strip, MaxPts - 1)
  /\ edges \in SeqsUpTo(AnyPairs(Len(points)), MaxEdges)
  /\ Len(points) + Len(edges) <= MaxPts - 1 \/ points = UnitSquare
  /\ delaunay \in BOOLEAN
  /\ interior \in BOOLEAN
  /\ exterior \in BOOLEAN
  /\ Entry

SpecAny == InitAny /\ [][Next]_vars

\* Polygon inputs: the points are the vertices of a simple polygon, in
\* boundary order and in either winding, and the edges are its boundary
\* cycle.  Polygons of MaxPts vertices are triangulated one side at a time;
\* smaller ones under every option combination.
CycleEdges(n) == [i \in 1..n |-> <<i - 1, i % n>>]

SimplePolygon(ps) ==
  /\ Len(ps) >= 3
  /\ Distinct(ps)
  /\ Planar(ps, CycleEdges(Len(ps)))

InitPoly ==
  /\ points \in {ps \in DistinctSeqs(Grid, MaxPts) : SimplePolygon(ps)}
  /\ edges = CycleEdges(Len(points))
  /\ delaunay \in BOOLEAN
  /\ interior \in BOOLEAN
  /\ exterior \in BOOLEAN
  /\ interior # exterior \/ Len(points) < MaxPts
  /\ Entry

SpecPoly == InitPoly /\ [][Next]_vars

\* Nested inputs: no point, or a triangle with a smaller triangle strictly
\* inside it and one more point outside it; the constraints are none, the
\* sides of the outer triangle, the sides of the inner triangle, or both,
\* each side given in either direction; every option combination.
Nested == << <<0, 0>>, <<4, 0>>, <<0, 4>>, <<1, 1>>, <<2, 1>>, <<1, 2>>, <<4, 4>> >>
OuterRing == << <<0, 1>>, <<1, 2>>, <<2, 0>> >>
InnerRing == << <<3, 4>>, <<5, 4>>, <<5, 3>> >>

InitNest ==
  /\ points \in {<<>>, Nested}
  /\ edges \in {<<>>, OuterRing, InnerRing, OuterRing \o InnerRing, InnerRing \o OuterRing}
  /\ delaunay \in BOOLEAN
  /\ interior \in BOOLEAN
  /\ exterior \in BOOLEAN
  /\ Entry

SpecNest == InitNest /\ [][Next]_vars

\* Repeated calls: the first call and the calls after it take their
\* arguments from CallFamily (no point, the unit square or a convex pentagon;
\* no edge, one edge given from its larger index, or two edges given out of
\* order; every option combination), and the last of MaxCalls calls repeats
\* the arguments of the first.
Pentagon == << <<0, 0>>, <<2, 0>>, <<2, 1>>, <<1, 2>>, <<0, 1>> >>

CallFamily ==
  [points : {<<>>, UnitSquare, Pentagon},
   edges : {<<>>, << <<2, 0>> >>, << <<3, 2>>, <<1, 0>> >>},
   delaunay : BOOLEAN, interior : BOOLEAN, exterior : BOOLEAN]

InitCalls ==
  /\ \E c \in CallFamily :
       /\ points = c.points
       /\ edges = c.edges
       /\ delaunay = c.delaunay
       /\ interior = c.interior
       /\ exterior = c.exterior
  /\ Entry

CallAgain ==
  /\ Len(log) < MaxCalls - 1
  /\ \E c \in CallFamily :
       /\ Len(log) = MaxCalls - 2 => c = (IF log = <<>> THEN ThisCall ELSE log[1].call)
       /\ CallWith(c)

NextCalls ==
  \/ Next
  \/ CallAgain

SpecCalls == InitCalls /\ [][NextCalls]_vars

\* pointInPolygon inputs: rings of at most MaxRing distinct grid points, and
\* query points whose coordinates are the numbers of 0..MaxCoord that are
\* multiples of 2^-(MantBits+1), the spacing of the numbers of [1/4, 1/2)
NumCoords ==
  {FRound(k, Pow2(MantBits + 1), 0) : k \in 0..(MaxCoord * Pow2(MantBits + 1))}

NoCdt ==
  /\ points = <<>> /\ edges = <<>>
  /\ delaunay = TRUE /\ interior = TRUE /\ exterior = TRUE
  /\ NoCall

InitPip ==
  /\ point \in NumCoords \X NumCoords
  /\ polygon \in DistinctSeqs(Grid, MaxRing)
  /\ pipI = 0 /\ pipJ = Len(polygon) - 1 /\ inside = FALSE
  /\ pc = "pip"
  /\ NoCdt
  /\ NoFilter
  /\ NoLog
  /\ NoHelper

SpecPip == InitPip /\ [][NextPip]_vars

\* Predicate inputs: four points of the grid, equal ones included
InitPredicate ==
  /\ fargs \in [a : Grid, b : Grid, c : Grid, d : Grid]
  /\ fout = <<>>
  /\ pc = "predicate"
  /\ NoCdt
  /\ NoPip
  /\ NoFilter
  /\ NoLog

SpecPredicate == InitPredicate /\ [][NextPredicate]_vars

\* Search inputs: non-decreasing arrays of at most MaxLen numbers of
\* 0..MaxKey, and a query of -1..MaxKey + 1
MaxLen == 4
MaxKey == 3

RECURSIVE SortedArrays(_, _)
SortedArrays(n, lo) ==
  IF n = 0 THEN {<<>>}
  ELSE {<<>>} \cup {<<k>> \o t : k \in {lo}, t \in SortedArrays(n - 1, lo)}
              \cup (IF lo < MaxKey THEN SortedArrays(n, lo + 1) ELSE {})

InitSearch ==
  /\ fargs \in [a : SortedArrays(MaxLen, 0), y : (-1)..(MaxKey + 1)]
  /\ fout = <<>>
  /\ pc = "search"
  /\ NoCdt
  /\ NoPip
  /\ NoFilter
  /\ NoLog

SpecSearch == InitSearch /\ [][NextSearch]_vars

\* filterTriangles inputs: the points of the strip in row order, up to
\* MaxTris triangles on them, a rectangle with a corner at the origin as
\* the boundary, and the holes either not given or up to MaxHoles unit
\* cells of the grid
StripPoints == [k \in 1..((MaxCoord + 1) * MaxCoord) |->
                  <<(k - 1) % (MaxCoord + 1), (k - 1) \div (MaxCoord + 1)>>]

IndexTriples(n) ==
  {t \in (0..(n - 1)) \X (0..(n - 1)) \X (0..(n - 1)) : t[1] < t[2] /\ t[2] < t[3]}

Rect(x, y, w, h) == << <<x, y>>, <<x + w, y>>, <<x + w, y + h>>, <<x, y + h>> >>

Boundaries == {Rect(0, 0, w, h) : w \in 1..MaxCoord, h \in 1..MaxCoord}

UnitCells == {Rect(x, y, 1, 1) : x \in 0..(MaxCoord - 1), y \in 0..(MaxCoord - 1)}

InitFilter ==
  /\ points = StripPoints
  /\ triangles \in SeqsUpTo(IndexTriples(Len(points)), MaxTris)
  /\ boundary \in Boundaries
  /\ holesGiven \in BOOLEAN
  /\ holes \in SeqsUpTo(UnitCells, MaxHoles)
  /\ holesGiven \/ holes = <<>>
  /\ ti = 0 /\ kept = <<>>
  /\ pc = "filterTriangles"
  /\ edges = <<>> /\ delaunay = TRUE /\ interior = TRUE /\ exterior = TRUE
  /\ NoCall
  /\ NoPip
  /\ NoLog
  /\ NoHelper

SpecFilter == InitFilter /\ [][NextFilter]_vars

\* ------------------------------------------------------------------------
\* C1
\* ------------------------------------------------------------------------
EmptyCircumcircles ==
  \A i \in 1..Len(result) : \A k \in 0..(Len(points) - 1) :
    k \notin Verts(result[i]) =>
      ~StrictlyInsideCircumcircle(Pt(result[i][1]), Pt(result[i][2]),
                                  Pt(result[i][3]), Pt(k))

\* C1: for pairwise distinct points, no constrained edge and the default
\* options, every triangle returned has an empty circumcircle (no other
\* input point strictly inside it), and the unit square gives exactly two
\* triangles.
C1_Delaunay ==
  (Returned /\ Distinct(points) /\ edges = <<>> /\ DefaultOptions)
    => /\ EmptyCircumcircles
       /\ points = UnitSquare => Len(result) = 2

\* a call on five points whose refinement changed the sweep's triangulation
C1_Witness ==
  /\ Returned /\ Distinct(points) /\ edges = <<>> /\ DefaultOptions
  /\ Len(points) = MaxPts
  /\ result # <<>>
  /\ TriSet(result) # TriSet(cells)
  /\ EmptyCircumcircles

\* ------------------------------------------------------------------------
\* C2
\* ------------------------------------------------------------------------
ConstraintSet == {{edges[i][1], edges[i][2]} : i \in 1..Len(edges)}
EdgesOf(ts) == UNION {TriEdges(ts[i]) : i \in 1..Len(ts)}
ConstraintsKept == ConstraintSet \subseteq EdgesOf(result)

\* C2 as stated: distinct points, a planar constraint set, interior and
\* exterior enabled, delaunay either way: every constraint edge is an edge
\* of some returned triangle.
C2_Original ==
  (Returned /\ Distinct(points) /\ Planar(points, edges) /\ interior /\ exterior)
    => ConstraintsKept

\* C2 amended: the same, for points that are not all on one line (collinear
\* points have no triangle, so no returned triangle can carry the edge).
C2_ConstraintsKept ==
  (Returned /\ Distinct(points) /\ Planar(points, edges) /\ interior /\ exterior
     /\ ~AllCollinear(points))
    => ConstraintsKept

\* a refined call on at least four points with a kept constraint whose
\* endpoints share their x coordinate (no start or end event)
C2_Witness ==
  /\ Returned /\ Distinct(points) /\ Planar(points, edges) /\ interior /\ exterior
  /\ ~AllCollinear(points)
  /\ delaunay
  /\ Len(points) >= 4
  /\ \E i \in 1..Len(edges) : Pt(edges[i][1])[1] = Pt(edges[i][2])[1]
  /\ ConstraintsKept

\* ------------------------------------------------------------------------
\* C3
\* ------------------------------------------------------------------------
\* the edge the main loop of delaunayRefine has just popped
Popped == {stack[Len(stack) - 1], stack[Len(stack)]}

\* a step of the main loop that flipped its edge
Flipped == pc = "refine" /\ stack # <<>> /\ stars' # stars

Diagonals == {{0, 2}, {1, 3}}
ScenarioB ==
  (Returned /\ points = UnitSquare /\ Len(edges) = 1 /\ ConstraintSet \subseteq Diagonals
     /\ interior /\ exterior)
    => /\ Len(result) = 2
       /\ TriEdges(result[1]) \cap TriEdges(result[2]) = ConstraintSet

\* C3: the main loop of delaunayRefine never flips a constrained edge, a
\* constrained edge of the triangulation is still one of its edges after
\* every flip, and the unit square with one constrained diagonal returns two
\* triangles that share exactly that diagonal.
C3_NeverFlipsConstraint ==
  [][/\ Flipped =>
          /\ Popped \notin ConstraintSet
          /\ \A c \in ConstraintSet :
               c \in EdgesOf(Cells(stars)) => c \in EdgesOf(Cells(stars'))
     /\ ScenarioB']_vars

\* two returned triangles share the constrained edge c and the apex of one
\* is strictly inside the circumcircle of the other: refinement would flip c
\* if it were not constrained
BlockedFlip(c) ==
  \E i, j \in 1..Len(result) :
    /\ i # j
    /\ c \in TriEdges(result[i]) \cap TriEdges(result[j])
    /\ \E k \in Verts(result[j]) \ Verts(result[i]) :
         StrictlyInsideCircumcircle(Pt(result[i][1]), Pt(result[i][2]),
                                    Pt(result[i][3]), Pt(k))

\* a refined call on MaxPts points that kept a constrained edge which is not
\* locally Delaunay
C3_Witness ==
  /\ Returned /\ delaunay /\ interior /\ exterior
  /\ Distinct(points) /\ Planar(points, edges)
  /\ Len(points) = MaxPts
  /\ \E c \in ConstraintSet : BlockedFlip(c)

\* ------------------------------------------------------------------------
\* C4
\* ------------------------------------------------------------------------
InRange(ps, es) ==
  \A i \in 1..Len(es) : es[i][1] \in 0..(Len(ps) - 1) /\ es[i][2] \in 0..(Len(ps) - 1)

ValidTriangle(t) ==
  /\ t[1] \in 0..(Len(points) - 1)
  /\ t[2] \in 0..(Len(points) - 1)
  /\ t[3] \in 0..(Len(points) - 1)
  /\ t[1] # t[2] /\ t[2] # t[3] /\ t[3] # t[1]

\* C4: for any points, any constraint set with in-range indices and any
\* options, every returned triangle has three pairwise distinct indices in
\* 0..n-1.
C4_ValidIndices ==
  (Returned /\ InRange(points, edges))
    => \A i \in 1..Len(result) : ValidTriangle(result[i])

\* a call on the unit square with two crossing constraints that returned
\* triangles of one side only
C4_Witness ==
  /\ Returned /\ InRange(points, edges)
  /\ points = UnitSquare
  /\ Len(edges) = 2
  /\ ProperCross(Pt(edges[1][1]), Pt(edges[1][2]), Pt(edges[2][1]), Pt(edges[2][2]))
  /\ interior # exterior
  /\ result # <<>>
  /\ \A i \in 1..Len(result) : ValidTriangle(result[i])

\* ------------------------------------------------------------------------
\* C5
\* ------------------------------------------------------------------------
\* the triangles whose flag is still 0 when the flood fill has ended
Unclassified ==
  {Rot(index.cells[i]) : i \in {k \in 1..Len(index.cells) : index.flags[k] = 0}}

\* C5: a call that returned one side only: its triangles together with the
\* triangles of the call for the other side are, up to rotation, the
\* triangles of the call with both sides enabled minus the unclassified
\* ones, and no unclassified triangle is returned by either one-sided call.
C5_SidesPartition ==
  (Returned /\ interior # exterior) =>
    LET other == cdt2d(points, edges, delaunay, exterior, interior)
        both == cdt2d(points, edges, delaunay, TRUE, TRUE)
    IN /\ ~other.threw /\ ~both.threw
       /\ TriSet(result) \cup TriSet(other.out) = TriSet(both.out) \ Unclassified
       /\ TriSet(result) \cap Unclassified = {}
       /\ TriSet(other.out) \cap Unclassified = {}

\* an interior-only call on a polygon of MaxPts vertices that returned some
\* of the triangles and left others to the exterior
C5_Witness ==
  /\ Returned /\ interior /\ ~exterior
  /\ Len(points) = MaxPts
  /\ result # <<>>
  /\ Len(result) < Len(index.cells)
  /\ TriSet(result) \cup TriSet(cdt2d(points, edges, delaunay, FALSE, TRUE).out)
       = TriSet(cdt2d(points, edges, delaunay, TRUE, TRUE).out)

\* ------------------------------------------------------------------------
\* C6
\* ------------------------------------------------------------------------
PolygonInput == SimplePolygon(points) /\ edges = CycleEdges(Len(points))

\* the polygon turns left at one vertex and right at another
NonConvex(ps) ==
  LET n == Len(ps)
      turn(i) == Cross(ps[i], ps[(i % n) + 1], ps[((i + 1) % n) + 1])
  IN \E i, j \in 1..n : turn(i) > 0 /\ turn(j) < 0

\* C6: the vertices of a simple polygon with its boundary cycle as the
\* constraints, interior only: exactly n - 2 triangles.
C6_PolygonCount ==
  (Returned /\ PolygonInput /\ interior /\ ~exterior)
    => Len(result) = Len(points) - 2

\* a non-convex polygon of MaxPts vertices, refined, interior only
C6_Witness ==
  /\ Returned /\ PolygonInput /\ interior /\ ~exterior
  /\ delaunay
  /\ Len(points) = MaxPts
  /\ NonConvex(points)
  /\ Len(result) = Len(points) - 2

\* ------------------------------------------------------------------------
\* C7
\* ------------------------------------------------------------------------
GeneralPosition(ps) ==
  /\ Distinct(ps)
  /\ \A i, j, k \in 1..Len(ps) :
       (i < j /\ j < k) => ~Collinear(ps[i], ps[j], ps[k])
  /\ \A i, j, k, l \in 1..Len(ps) :
       (i < j /\ j < k /\ l \notin {i, j, k}) => ~OnCircumcircle(ps[i], ps[j], ps[k], ps[l])

\* point i is a vertex of the convex hull: some line through it and another
\* point has every other point strictly on its left
OnHull(ps, i) ==
  \/ Len(ps) <= 2
  \/ \E j \in 1..Len(ps) :
       /\ j # i
       /\ \A k \in 1..Len(ps) : k \notin {i, j} => Cross(ps[i], ps[j], ps[k]) > 0

HullCount(ps) == Cardinality({i \in 1..Len(ps) : OnHull(ps, i)})

TriangleCountFormula == Len(result) = 2 * Len(points) - HullCount(points) - 2

\* C7 as stated: n points in general position, h of them on the hull, no
\* constraints, default options: exactly 2n - h - 2 triangles.
C7_Original ==
  (Returned /\ GeneralPosition(points) /\ edges = <<>> /\ DefaultOptions)
    => TriangleCountFormula

\* C7 amended: the count is 2n - h - 2 when there are at least two points
\* (for n = 0 and n = 1 the call returns no triangle, where the formula
\* gives -2 and -1).
C7_TriangleCount ==
  (Returned /\ GeneralPosition(points) /\ edges = <<>> /\ DefaultOptions
     /\ Len(points) >= 2)
    => TriangleCountFormula

\* five points in general position, one of them inside the hull of the rest
C7_Witness ==
  /\ Returned /\ GeneralPosition(points) /\ edges = <<>> /\ DefaultOptions
  /\ Len(points) = MaxPts
  /\ HullCount(points) < Len(points)
  /\ TriangleCountFormula

\* ------------------------------------------------------------------------
\* C8
\* ------------------------------------------------------------------------
FastInput == points = <<>> \/ (~interior /\ ~exterior)

\* C8: with no point, or with interior and exterior both disabled, the call
\* can only return, it returns the empty list, and it neither runs the sweep
\* nor fails, whatever the edges are.
C8_FastPath ==
  FastInput =>
    /\ pc \in {"start", "done"}
    /\ pc = "start" => ENABLED ReturnEmpty
    /\ pc = "done" => (result = <<>> /\ events = <<>> /\ cells = <<>>)

\* a returned call on some points, with both sides disabled and a constraint
\* index out of range
C8_Witness ==
  /\ Returned
  /\ points # <<>> /\ ~interior /\ ~exterior
  /\ ~InRange(points, edges)
  /\ result = <<>>

\* ------------------------------------------------------------------------
\* C9
\* ------------------------------------------------------------------------
Rotations(r) ==
  {[k \in 1..Len(r) |-> r[((k - 1 + d) % Len(r)) + 1]] : d \in 0..(Len(r) - 1)}

Reverse(r) == [k \in 1..Len(r) |-> r[Len(r) + 1 - k]]

PipReturned == pc = "pipDone"

RotationInvariant ==
  \A q \in Rotations(polygon) : pointInPolygon(point, NumRing(q)) = inside

ReversalInvariant == pointInPolygon(point, NumRing(Reverse(polygon))) = inside

\* C9 as stated: the value returned for a point and a ring is also the
\* value for every rotation of the ring and for the reversed ring.
C9_Original == PipReturned => (RotationInvariant /\ ReversalInvariant)

\* ------------------------------------------------------------------------
\* C10
\* ------------------------------------------------------------------------
\* the centroid of t is inside the boundary ring and inside no ring of hs
Wanted(t, hs) ==
  LET c == triangleCentroid(points, t)
  IN /\ pointInPolygon(c, NumRing(boundary))
     /\ \A h \in 1..Len(hs) : ~pointInPolygon(c, NumRing(hs[h]))

WantedGiven(t) == Wanted(t, holes)
WantedNoHole(t) == Wanted(t, <<>>)

FilterReturned == pc = "filterDone"

\* C10: filterTriangles returns the triangles whose centroid is inside the
\* boundary and inside no hole, in their original order; without a holes
\* argument it returns what it returns for an empty hole list; and the
\* triangle list it was given never changes.
C10_FilterExact ==
  /\ [](FilterReturned =>
          /\ holesGiven => kept = SelectSeq(triangles, WantedGiven)
          /\ ~holesGiven =>
               /\ kept = SelectSeq(triangles, WantedNoHole)
               /\ kept = filterTriangles(points, triangles, boundary, TRUE, <<>>))
  /\ [][triangles' = triangles]_vars

\* a returned call on two proper triangles and two holes that dropped its
\* first triangle, whose centroid is inside the boundary and in the second
\* hole only, and kept its second triangle
C10_Witness ==
  /\ FilterReturned
  /\ holesGiven /\ Len(holes) = 2
  /\ Len(triangles) = 2
  /\ kept = <<triangles[2]>>
  /\ \A k \in 1..2 :
       ~Collinear(Pt(triangles[k][1]), Pt(triangles[k][2]), Pt(triangles[k][3]))
  /\ pointInPolygon(triangleCentroid(points, triangles[1]), NumRing(boundary))
  /\ ~pointInPolygon(triangleCentroid(points, triangles[1]), NumRing(holes[1]))
  /\ pointInPolygon(triangleCentroid(points, triangles[1]), NumRing(holes[2]))

\* ------------------------------------------------------------------------
\* C11
\* ------------------------------------------------------------------------
WellFormed == Distinct(points) /\ Planar(points, edges)

\* twice the area of triangle t
Area2(t) == Abs(Cross(Pt(t[1]), Pt(t[2]), Pt(t[3])))

\* the height of point p on the paraboloid z = x^2 + y^2
Lift(p) == Sq(p[1]) + Sq(p[2])

\* six times the volume between triangle t and its lift to the paraboloid
LiftedVolume(t) == Area2(t) * (Lift(Pt(t[1])) + Lift(Pt(t[2])) + Lift(Pt(t[3])))

RECURSIVE VolumeFrom(_, _)
VolumeFrom(ts, k) == IF k > Len(ts) THEN 0 ELSE LiftedVolume(ts[k]) + VolumeFrom(ts, k + 1)

\* The variant of the refiner's main loop.  A flip of an edge that is not
\* locally Delaunay lowers the lifted surface, so the volume drops by at
\* least 1 while the stack gains at most three edges; every other iteration
\* pops one edge and pushes none.
RefineRank == 4 * VolumeFrom(Cells(stars), 1) + Len(stack) \div 2

ZeroCells == {c \in 1..Len(index.cells) : index.flags[c] = 0}
Unscheduled == {c \in ZeroCells : (c - 1) \notin Range(index.active)}
FlaggedNext == Cardinality({k \in 1..Len(index.next) : index.flags[index.next[k] + 1] # 0})

\* a weight above every change of the lower-order terms of FillRank
FillWeight == 9 * Len(index.cells) + 1

\* The variant of the classifier's loops: unflagged triangles not yet in the
\* active fringe, then unflagged triangles, then the length of the active
\* fringe plus twice the flagged entries of the deferred fringe.
FillRank ==
  Cardinality(Unscheduled) * FillWeight * FillWeight
  + Cardinality(ZeroCells) * FillWeight
  + Len(index.active) + 2 * FlaggedNext

\* the stages of a call, in the order the call goes through them
Stage ==
  CASE pc = "start" -> 0
    [] pc = "sweep" -> 1
    [] pc = "built" -> 2
    [] pc = "refine" -> 3
    [] pc = "select" -> 4
    [] pc = "fill" -> 5
    [] pc = "filter" -> 6
    [] OTHER -> 7

\* C11: a call on well-formed input (pairwise distinct points, a planar
\* constraint set) terminates.  It never fails and never stops before it
\* returns; the event loop advances by one event per iteration; every
\* iteration of the refiner's main loop lowers RefineRank and every iteration
\* of the classifier's loops lowers FillRank, two natural numbers, so the
\* stack and both fringes become empty after finitely many iterations; and
\* the call only moves forward through its stages.  The stack is empty when
\* refinement has ended and both fringes are empty when the fill has ended.
C11_Terminates ==
  /\ [](WellFormed => pc # "threw")
  /\ [](pc = "refine" => stack # <<>>)
  /\ []((pc \in {"select", "fill", "filter", "done"}) => stack = <<>>)
  /\ []((pc \in {"filter", "done"}) => (index.active = <<>> /\ index.next = <<>>))
  /\ [][/\ Stage' >= Stage
        /\ (pc = "sweep" /\ pc' = "sweep") => (ei <= Len(events) /\ ei' = ei + 1)
        /\ (pc = "refine" /\ pc' = "refine") => RefineRank' < RefineRank
        /\ (pc = "fill" /\ pc' = "fill") => FillRank' < FillRank]_vars

\* a returned one-sided call whose refinement flipped an edge and whose
\* fill crossed a constraint, giving triangles of both sides
C11_Witness ==
  /\ Returned /\ WellFormed
  /\ delaunay /\ interior # exterior
  /\ TriSet(Cells(stars)) # TriSet(cells)
  /\ \E i, j \in 1..Len(index.flags) : index.flags[i] = 1 /\ index.flags[j] = -1
  /\ stack = <<>> /\ index.active = <<>> /\ index.next = <<>>

\* ------------------------------------------------------------------------
\* C12
\* ------------------------------------------------------------------------
\* a returned call returned what every earlier call with its arguments did
SameAsBefore ==
  Returned => \A k \in 1..Len(log) : log[k].call = ThisCall => log[k].result = result

\* a returned call returned the value of cdt2d, the function, at its arguments
FunctionOfArguments ==
  Returned => result = cdt2d(points, edges, delaunay, interior, exterior).out

\* C12: cdt2d is a pure function of its arguments.  At every step of a call
\* the caller's points and edges are as the caller passed them (elements,
\* order, endpoint order); a call returns what every earlier call with the
\* same arguments returned, whatever was called in between; and the list
\* returned is the value of cdt2d as a function of the arguments alone.
C12_Pure ==
  /\ ThisCall = given
  /\ SameAsBefore
  /\ FunctionOfArguments

\* the last of three calls has returned: it repeats the first call, a
\* refined one-sided call with two edges given out of canonical order, and
\* the call in between was a refined call on other points that left its
\* own cells, stars and face index behind
C12_Witness ==
  /\ Returned
  /\ Len(log) = 2
  /\ log[1].call = ThisCall
  /\ log[1].result = result
  /\ result # <<>>
  /\ edges = << <<3, 2>>, <<1, 0>> >>
  /\ cedges # edges
  /\ delaunay /\ interior # exterior
  /\ log[2].call.points # points
  /\ log[2].call.delaunay /\ log[2].call.interior # log[2].call.exterior
  /\ log[2].result # <<>>
  /\ log[2].result # result

\* ------------------------------------------------------------------------
\* C13
\* ------------------------------------------------------------------------
\* delaunayRefine has returned: the stars are not changed after it
Refined == delaunay /\ pc \in {"select", "fill", "filter", "done"}

\* the triangles of the triangulation, each as the rotation from its
\* smallest index
Faces == TriSet(Cells(stars))

\* triangles s and t share exactly the edge e
Share(s, t, e) == s # t /\ Verts(s) \cap Verts(t) = e /\ Cardinality(e) = 2

\* the edges with two incident triangles that are not constrained
FreeInnerEdges ==
  {e \in EdgesOf(Cells(stars)) \ ConstraintSet : \E s, t \in Faces : Share(s, t, e)}

\* the vertex of t opposite its edge e is not strictly inside the
\* circumcircle of s
OutsideOf(s, t, e) ==
  \A x \in Verts(t) \ e :
    ~StrictlyInsideCircumcircle(Pt(s[1]), Pt(s[2]), Pt(s[3]), Pt(x))

LocallyDelaunay(e) ==
  \A s, t \in Faces : Share(s, t, e) => OutsideOf(s, t, e)

\* C13: when delaunayRefine has returned, every edge of the triangulation
\* that is not constrained and has two incident triangles is locally
\* Delaunay: the vertex opposite the edge in either triangle is not strictly
\* inside the circumcircle of the other triangle.
C13_LocallyDelaunay == Refined => \A e \in FreeInnerEdges : LocallyDelaunay(e)

\* refinement has ended on MaxPts points with a constraint; it changed the
\* sweep's triangulation, and free inner edges are left to be tested
C13_Witness ==
  /\ Refined /\ WellFormed
  /\ pc = "select"
  /\ Len(points) = MaxPts
  /\ edges # <<>>
  /\ Faces # TriSet(cells)
  /\ Cardinality(FreeInnerEdges) >= 2
  /\ \A e \in FreeInnerEdges : LocallyDelaunay(e)

\* ------------------------------------------------------------------------
\* C14
\* ------------------------------------------------------------------------
\* the event loop of monotoneTriangulate has consumed every event
SweptOut == pc = "sweep" /\ ei > Len(events)

\* every point of U lies on or to the right of the line from a to b while c
\* lies strictly to its left, or the other way round
CutsOff(a, b, c, U) ==
  \/ Cross(a, b, c) > 0 /\ \A u \in U : Cross(a, b, u) <= 0
  \/ Cross(a, b, c) < 0 /\ \A u \in U : Cross(a, b, u) >= 0

\* the line through one side of the proper triangle s keeps the points U
\* out of the open interior of s
SideCutsOff(s, U) ==
  \/ CutsOff(Pt(s[1]), Pt(s[2]), Pt(s[3]), U)
  \/ CutsOff(Pt(s[2]), Pt(s[3]), Pt(s[1]), U)
  \/ CutsOff(Pt(s[3]), Pt(s[1]), Pt(s[2]), U)

Corners(t) == {Pt(t[1]), Pt(t[2]), Pt(t[3])}

\* two proper triangles with no common interior point: a line through a
\* side of one of them separates them
InteriorsDisjoint(s, t) == SideCutsOff(s, Corners(t)) \/ SideCutsOff(t, Corners(s))

\* the segment from p to q meets the open interior of the proper triangle t
CrossesInterior(p, q, t) ==
  /\ ~SideCutsOff(t, {p, q})
  /\ \E u, v \in Corners(t) : Cross(p, q, u) > 0 /\ Cross(p, q, v) < 0

\* i -> j is a side of the convex hull of ps, walked counter-clockwise: no
\* point lies to its right and the points on its line lie between i and j
HullSide(ps, i, j) ==
  /\ i # j
  /\ \A k \in 1..Len(ps) :
       /\ Cross(ps[i], ps[j], ps[k]) >= 0
       /\ Collinear(ps[i], ps[j], ps[k]) =>
            /\ Min2(ps[i][1], ps[j][1]) <= ps[k][1] /\ ps[k][1] <= Max2(ps[i][1], ps[j][1])
            /\ Min2(ps[i][2], ps[j][2]) <= ps[k][2] /\ ps[k][2] <= Max2(ps[i][2], ps[j][2])

\* twice the area of the convex hull of ps, by the shoelace formula over
\* the pairs (i, j) numbered k = (i - 1) * n + j
RECURSIVE HullArea2From(_, _)
HullArea2From(ps, k) ==
  IF k > Len(ps) * Len(ps) THEN 0
  ELSE LET i == ((k - 1) \div Len(ps)) + 1
           j == ((k - 1) % Len(ps)) + 1
       IN (IF HullSide(ps, i, j) THEN ps[i][1] * ps[j][2] - ps[j][1] * ps[i][2] ELSE 0)
            + HullArea2From(ps, k + 1)

HullArea2(ps) == HullArea2From(ps, 1)

RECURSIVE AreaFrom(_, _)
AreaFrom(ts, k) == IF k > Len(ts) THEN 0 ELSE Area2(ts[k]) + AreaFrom(ts, k + 1)

TriangulatesHull(ts) ==
  /\ \A k \in 1..Len(ts) : Area2(ts[k]) > 0
  /\ \A k, l \in 1..Len(ts) : k < l => InteriorsDisjoint(ts[k], ts[l])
  /\ AreaFrom(ts, 1) = HullArea2(points)
  /\ \A e \in 1..Len(edges) : \A k \in 1..Len(ts) :
       ~CrossesInterior(Pt(edges[e][1]), Pt(edges[e][2]), ts[k])

\* C14: for pairwise distinct points that are not all collinear and a planar
\* constraint set, the triangles produced by monotoneTriangulate are proper,
\* have pairwise disjoint interiors, have areas that sum to the area of the
\* convex hull of the points, and no constrained edge crosses the interior
\* of any of them.
C14_TriangulatesHull ==
  (SweptOut /\ WellFormed /\ ~AllCollinear(points)) => TriangulatesHull(cells)

\* the sweep of MaxPts points with a point inside their hull and a
\* constraint that is not a side of the hull
C14_Witness ==
  /\ SweptOut /\ WellFormed /\ ~AllCollinear(points)
  /\ Len(points) = MaxPts
  /\ \E i \in 1..Len(points) : ~OnHull(points, i)
  /\ \E e \in 1..Len(edges) :
       /\ ~HullSide(points, edges[e][1] + 1, edges[e][2] + 1)
       /\ ~HullSide(points, edges[e][2] + 1, edges[e][1] + 1)
       /\ Pt(edges[e][1])[1] # Pt(edges[e][2])[1]
  /\ Len(cells) >= 3
  /\ TriangulatesHull(cells)

\* ------------------------------------------------------------------------
\* C15
\* ------------------------------------------------------------------------
\* the Triangulation exists: the sweep's triangles are loaded
Loaded == pc \in {"built", "refine", "select", "fill", "filter", "done"} /\ stars # <<>>

\* the pairs held by the star of vertex v, and their positions in the list
PairSlots(v) == 1..(Len(stars[v + 1]) \div 2)
PairAt(v, q) == <<stars[v + 1][2 * q - 1], stars[v + 1][2 * q]>>
StarPairs(v) == {PairAt(v, q) : q \in PairSlots(v)}
Vertices == 0..(Len(stars) - 1)

\* the directed edge v -> j is in at most one triangle
UniqueOpposite ==
  \A v \in Vertices : \A q, r \in PairSlots(v) :
    PairAt(v, q)[1] = PairAt(v, r)[1] => q = r

\* (j, k) is in the star of v exactly when (k, v) is in the star of j and
\* (v, j) is in the star of k
SymmetricStars ==
  /\ \A v \in Vertices : \A pr \in StarPairs(v) : pr[1] \in Vertices /\ pr[2] \in Vertices
  /\ \A v, j, k \in Vertices :
       (<<j, k>> \in StarPairs(v)) <=> (<<k, v>> \in StarPairs(j) /\ <<v, j>> \in StarPairs(k))

\* C15: once the sweep's triangles are loaded into the Triangulation, and
\* after every flip of the refiner, every directed edge of a star has one
\* opposite vertex only and every triangle is registered in the stars of
\* its three vertices.
C15_StarsConsistent == Loaded => (UniqueOpposite /\ SymmetricStars)

\* the refiner is running, has flipped an edge, and some vertex has three
\* triangles or more around it
C15_Witness ==
  /\ Loaded /\ pc = "refine"
  /\ Faces # TriSet(cells)
  /\ \E v \in Vertices : Cardinality(StarPairs(v)) >= 3
  /\ UniqueOpposite /\ SymmetricStars

\* ------------------------------------------------------------------------
\* C16
\* ------------------------------------------------------------------------
\* the triangles registered in the stars st, each as the rotation that starts
\* at its smallest index
TrisOf(st) ==
  UNION {{Rot(<<v - 1, st[v][2 * q - 1], st[v][2 * q]>>) : q \in 1..(Len(st[v]) \div 2)} :
           v \in 1..Len(st)}

RECURSIVE PairCount(_, _)
PairCount(st, v) == IF v > Len(st) THEN 0 ELSE Len(st[v]) \div 2 + PairCount(st, v + 1)

\* the vertices k with the pair (j, k) in the star of i: the triangles
\* (i, j, k) registered at i
Thirds(st, i, j) ==
  {st[i + 1][2 * q] : q \in {r \in 1..(Len(st[i + 1]) \div 2) : st[i + 1][2 * r - 1] = j}}

\* the edge (i, j) has a triangle on either side
TwoTriangles(st, i, j) == Thirds(st, i, j) # {} /\ Thirds(st, j, i) # {}

\* st2 is st after the flip of (i, j), with (i, j, a) and (j, i, b) the two
\* triangles on the edge
FlipFrame(st, st2, i, j) ==
  LET a == CHOOSE k \in Thirds(st, i, j) : TRUE
      b == CHOOSE k \in Thirds(st, j, i) : TRUE
      before == TrisOf(st)
      after == TrisOf(st2)
  IN /\ after = (before \ {Rot(<<i, j, a>>), Rot(<<j, i, b>>)})
                  \cup {Rot(<<i, b, a>>), Rot(<<j, a, b>>)}
     /\ \A t \in after : ~({i, j} \subseteq Verts(t))
     /\ opposite(st2, b, a) = i
     /\ opposite(st2, a, b) = j
     /\ Cardinality(after) = Cardinality(before)
     /\ PairCount(st2, 1) = PairCount(st, 1)
     /\ \A v \in 1..Len(st) : (v - 1) \notin {i, j, a, b} => st2[v] = st[v]

\* the two vertices opposite the edge (i, j) are not joined by an edge yet
FreshDiagonal(st, i, j) ==
  \A a \in Thirds(st, i, j) : \A b \in Thirds(st, j, i) :
    b \notin Range(st[a + 1]) /\ a \notin Range(st[b + 1])

\* the edge on top of the refiner's stack
TopA == stack[Len(stack) - 1]
TopB == stack[Len(stack)]

\* the iteration of the refiner that is about to run flips the edge on top
\* of the stack
AboutToFlip == pc = "refine" /\ stack # <<>> /\ WillFlip(points, stars, TopA, TopB)

\* the frame holds for the flip of every edge with a triangle on either side
FlipsFrame ==
  \A i, j \in Vertices :
    TwoTriangles(stars, i, j) => FlipFrame(stars, flip(stars, i, j), i, j)

\* C16 as stated: when the edge (i, j) has the triangles (i, j, a) and
\* (j, i, b) on its two sides, flip(i, j) removes these two triangles and
\* adds (i, b, a) and (j, a, b) and nothing else: no triangle contains i and
\* j afterwards, the edge a-b has the opposite vertices i and j, the number
\* of triangles is the same, and the star of every vertex other than i, j,
\* a, b is the same list.
C16_Original == Loaded => FlipsFrame

\* C16 amended: the same for an edge (i, j) whose opposite vertices a and b
\* are not joined by an edge before the flip.  Every flip the refiner makes
\* is of this kind.
C16_FlipFrame ==
  /\ Loaded => \A i, j \in Vertices :
       (TwoTriangles(stars, i, j) /\ FreshDiagonal(stars, i, j))
          => FlipFrame(stars, flip(stars, i, j), i, j)
  /\ AboutToFlip => (TwoTriangles(stars, TopA, TopB) /\ FreshDiagonal(stars, TopA, TopB))

\* the refiner has flipped an edge of a triangulation of MaxPts points, one
\* of them outside the two triangles, and is about to flip another
C16_Witness ==
  /\ AboutToFlip
  /\ Faces # TriSet(cells)
  /\ Len(points) = MaxPts
  /\ TwoTriangles(stars, TopA, TopB)
  /\ FreshDiagonal(stars, TopA, TopB)
  /\ \E v \in Vertices :
       /\ v \notin ({TopA, TopB} \cup Thirds(stars, TopA, TopB) \cup Thirds(stars, TopB, TopA))
       /\ stars[v + 1] # <<>>
  /\ FlipFrame(stars, flip(stars, TopA, TopB), TopA, TopB)

\* ------------------------------------------------------------------------
\* C17
\* ------------------------------------------------------------------------
\* the list cs holds every triangle of the set T once and nothing else, each
\* starting at its smallest index
ListsOnce(cs, T) ==
  /\ \A k \in 1..Len(cs) : cs[k][1] < cs[k][2] /\ cs[k][1] < cs[k][3]
  /\ \A k, l \in 1..Len(cs) : k < l => cs[k] # cs[l]
  /\ Range(cs) = T

\* the Triangulation holds the triangles of the sweep and no flip was made
JustLoaded == Loaded /\ (pc = "built" \/ ~delaunay)

\* C17: cells() returns every triangle registered in the stars exactly once
\* and nothing else, each as the rotation that starts at its smallest index
\* with the cyclic order kept; right after the load these are the triangles
\* of the sweep, and after a flip they are the triangles before it with the
\* two flipped triangles exchanged.
C17_CellsOnce ==
  /\ Loaded => ListsOnce(Cells(stars), TrisOf(stars))
  /\ JustLoaded => (ListsOnce(Cells(stars), TriSet(cells)) /\ Len(Cells(stars)) = Len(cells))
  /\ AboutToFlip =>
       ListsOnce(Cells(flip(stars, TopA, TopB)),
                 (Range(Cells(stars))
                    \ {Rot(<<TopA, TopB, opposite(stars, TopA, TopB)>>),
                       Rot(<<TopB, TopA, opposite(stars, TopB, TopA)>>)})
                  \cup {Rot(<<TopA, opposite(stars, TopB, TopA), opposite(stars, TopA, TopB)>>),
                        Rot(<<TopB, opposite(stars, TopA, TopB), opposite(stars, TopB, TopA)>>)})

\* the refiner has finished after a flip; four triangles or more are
\* registered, and the sweep produced one that does not start at its
\* smallest index
C17_Witness ==
  /\ Loaded /\ pc = "select" /\ delaunay
  /\ Faces # TriSet(cells)
  /\ Len(Cells(stars)) >= 4
  /\ \E k \in 1..Len(cells) : cells[k] # Rot(cells[k])
  /\ ListsOnce(Cells(stars), TrisOf(stars))

\* ------------------------------------------------------------------------
\* C18
\* ------------------------------------------------------------------------
\* the event loop is running or has just finished
Sweeping == pc = "sweep"

\* the indices of the events of the given type processed so far
Processed(type) == {events[k].idx : k \in {m \in 1..(ei - 1) : events[m].type = type}}

\* the constraint edges whose start event is processed and whose end event
\* is not
OpenEdges == Processed(EVENT_START) \ Processed(EVENT_END)

\* the sentinel first, then one hull for each open edge
HullsMatch(hs, open) ==
  /\ Len(hs) = 1 + Cardinality(open)
  /\ hs[1].idx = -1
  /\ {hs[m].idx : m \in 2..Len(hs)} = open

\* hs2 is hs with one hull for the edge of ev added directly above hull p,
\* which keeps its lower chain and hands its upper chain to the new hull
SplitsAt(hs, hs2, ev, p) ==
  /\ Len(hs2) = Len(hs) + 1
  /\ \A m \in 1..(p - 1) : hs2[m] = hs[m]
  /\ \A m \in (p + 1)..Len(hs) : hs2[m + 1] = hs[m]
  /\ hs2[p] = [hs[p] EXCEPT !.upperIds = <<Last(hs[p].upperIds)>>]
  /\ hs2[p + 1] = [a |-> ev.a, b |-> ev.b, idx |-> ev.idx,
                   lowerIds |-> <<Last(hs[p].upperIds)>>, upperIds |-> hs[p].upperIds]
  /\ Pt(Last(hs[p].upperIds)) = ev.a

\* hs2 is hs without hull p, the hull of the edge of ev, whose upper chain
\* goes to the hull below it
MergesAt(hs, hs2, ev, p) ==
  /\ hs[p].idx = ev.idx
  /\ Len(hs2) = Len(hs) - 1
  /\ \A m \in 1..(p - 2) : hs2[m] = hs[m]
  /\ \A m \in (p + 1)..Len(hs) : hs2[m - 1] = hs[m]
  /\ hs2[p - 1] = [hs[p - 1] EXCEPT !.upperIds = hs[p].upperIds]

\* the effect of the next event on the hull sequence
NextEventFrame ==
  LET ev == events[ei]
      r == ProcessEventOp(cells, hulls, points, ev)
  IN /\ ~r.threw
     /\ ev.type = EVENT_POINT => Len(r.hulls) = Len(hulls)
     /\ ev.type = EVENT_START => \E p \in 1..Len(hulls) : SplitsAt(hulls, r.hulls, ev, p)
     /\ ev.type = EVENT_END => \E p \in 2..Len(hulls) : MergesAt(hulls, r.hulls, ev, p)

\* C18: at every step of the sweep the hull sequence is the sentinel
\* followed by one hull for each constraint edge whose start event is
\* processed and whose end event is not; a start event adds one hull
\* directly above the hull it splits, an end event removes the hull created
\* for its edge, and one hull remains after the last event.
C18_HullSequence ==
  Sweeping =>
    /\ HullsMatch(hulls, OpenEdges)
    /\ ei <= Len(events) => NextEventFrame
    /\ ei > Len(events) => Len(hulls) = 1

\* two edges are open at once, so three hulls, and the next event ends the
\* edge of the hull in the middle
C18_Witness ==
  /\ Sweeping /\ WellFormed
  /\ Len(hulls) = 3
  /\ HullsMatch(hulls, OpenEdges)
  /\ ei <= Len(events) /\ events[ei].type = EVENT_END
  /\ MergesAt(hulls, ProcessEventOp(cells, hulls, points, events[ei]).hulls, events[ei], 2)

\* ------------------------------------------------------------------------
\* C19
\* ------------------------------------------------------------------------
\* the chain after is the chain before with some of its last elements
\* popped and idx pushed
PoppedAndPushed(before, after, idx) ==
  /\ after # <<>>
  /\ Last(after) = idx
  /\ Len(after) <= Len(before) + 1
  /\ Front(after) = SubSeq(before, 1, Len(after) - 1)

\* the number of elements popped from the chain
Pops(before, after) == Len(before) + 1 - Len(after)

\* the pops a point event makes on the chains of the hulls it changes
RECURSIVE PopsFrom(_, _, _)
PopsFrom(hs, hs2, m) ==
  IF m > Len(hs) THEN 0
  ELSE (IF hs2[m] = hs[m] THEN 0
        ELSE Pops(hs[m].lowerIds, hs2[m].lowerIds) + Pops(hs[m].upperIds, hs2[m].upperIds))
       + PopsFrom(hs, hs2, m + 1)

\* the effect of the next event when it is a point event
PointEventFrame ==
  LET ev == events[ei]
      r == ProcessEventOp(cells, hulls, points, ev)
  IN /\ ~r.threw
     /\ Len(r.hulls) = Len(hulls)
     /\ \E m \in 1..Len(hulls) : r.hulls[m] # hulls[m]
     /\ \A m \in 1..Len(hulls) :
          r.hulls[m] # hulls[m] =>
            /\ PoppedAndPushed(hulls[m].lowerIds, r.hulls[m].lowerIds, ev.idx)
            /\ PoppedAndPushed(hulls[m].upperIds, r.hulls[m].upperIds, ev.idx)
            /\ r.hulls[m] = [hulls[m] EXCEPT !.lowerIds = r.hulls[m].lowerIds,
                                             !.upperIds = r.hulls[m].upperIds]
     /\ SubSeq(r.cells, 1, Len(cells)) = cells
     /\ Len(r.cells) - Len(cells) = PopsFrom(hulls, r.hulls, 1)

\* orientation of three consecutive points of a chain
Turn(ids, k) == orient2d(Pt(ids[k]), Pt(ids[k + 1]), Pt(ids[k + 2]))

ChainsConvex ==
  \A m \in 1..Len(hulls) :
    /\ \A k \in 1..(Len(hulls[m].lowerIds) - 2) : ~(Turn(hulls[m].lowerIds, k) > 0)
    /\ \A k \in 1..(Len(hulls[m].upperIds) - 2) : ~(Turn(hulls[m].upperIds, k) < 0)

\* C19: a point event emits, for each hull it is applied to, one triangle
\* per element popped from the lower chain and one per element popped from
\* the upper chain, and leaves its point last on both chains; after every
\* event no three consecutive points of a lower chain have an orientation
\* above 0 and no three consecutive points of an upper chain one below 0.
C19_PointEvent ==
  (Sweeping /\ WellFormed) =>
    /\ ChainsConvex
    /\ (ei <= Len(events) /\ events[ei].type = EVENT_POINT) => PointEventFrame

\* an edge is open, some chain has three points or more, and the next event
\* is a point event that pops both chains of one hull
C19_Witness ==
  /\ Sweeping /\ WellFormed
  /\ Len(hulls) >= 2
  /\ ei <= Len(events) /\ events[ei].type = EVENT_POINT
  /\ PointEventFrame
  /\ LET r == ProcessEventOp(cells, hulls, points, events[ei])
     IN /\ Len(r.cells) >= Len(cells) + 2
        /\ \E m \in 1..Len(hulls) :
             /\ r.hulls[m] # hulls[m]
             /\ Len(r.hulls[m].lowerIds) <= Len(hulls[m].lowerIds)
             /\ Len(r.hulls[m].upperIds) <= Len(hulls[m].upperIds)
  /\ \E m \in 1..Len(hulls) : Len(hulls[m].lowerIds) >= 3 \/ Len(hulls[m].upperIds) >= 3

\* ------------------------------------------------------------------------
\* C20
\* ------------------------------------------------------------------------
Sign(x) == IF x > 0 THEN 1 ELSE IF x < 0 THEN -1 ELSE 0

\* the events are sorted and none is processed yet
EventsSorted == pc = "sweep" /\ ei = 1

\* the rank of the kind of an event at a position: point, edge end, edge
\* start
KindRank(e) ==
  IF e.type = EVENT_POINT THEN 0 ELSE IF e.type = EVENT_END THEN 1 ELSE 2

\* the order of event a against event b: the sign of the first difference
\* among x, y, kind, orientation of the far endpoints (edge events only) and
\* original index
OrderOf(a, b) ==
  IF a.a[1] # b.a[1] THEN Sign(a.a[1] - b.a[1])
  ELSE IF a.a[2] # b.a[2] THEN Sign(a.a[2] - b.a[2])
  ELSE IF KindRank(a) # KindRank(b) THEN Sign(KindRank(a) - KindRank(b))
  ELSE IF a.type # EVENT_POINT /\ orient2d(a.a, a.b, b.b) # 0
       THEN Sign(orient2d(a.a, a.b, b.b))
  ELSE Sign(a.idx - b.idx)

StrictTotalOrder(E) ==
  /\ \A a, b \in E : Sign(compareEvent(a, b)) = OrderOf(a, b)
  /\ \A a, b \in E : Sign(compareEvent(a, b)) = -Sign(compareEvent(b, a))
  /\ \A a, b \in E : compareEvent(a, b) = 0 <=> a = b
  /\ \A a, b, c \in E :
       (compareEvent(a, b) < 0 /\ compareEvent(b, c) < 0) => compareEvent(a, c) < 0

\* the point event of a position comes before every edge event there
PointEventFirst ==
  \A k \in 1..Len(events) :
    events[k].type # EVENT_POINT =>
      \E m \in 1..(k - 1) : events[m].type = EVENT_POINT /\ events[m].a = events[k].a

\* C20: on the events made from distinct points and a planar constraint
\* set, compareEvent is a strict total order (antisymmetric, transitive,
\* zero only for an event against itself) that orders by x, then y, then
\* kind (point, edge end, edge start), then the orientation of the far
\* endpoints of edge events, then original index; the sorted event list is
\* increasing in it and has the point event of an endpoint before every
\* edge event at that endpoint.
C20_EventOrder ==
  (EventsSorted /\ WellFormed) =>
    /\ StrictTotalOrder(Range(events))
    /\ \A k, m \in 1..Len(events) : k < m => compareEvent(events[k], events[m]) < 0
    /\ PointEventFirst

\* two edges start at one point and are told apart by orientation, and an
\* edge ends where another event lies
C20_Witness ==
  /\ EventsSorted /\ WellFormed
  /\ \E k, m \in 1..Len(events) :
       /\ k < m
       /\ events[k].type = EVENT_START /\ events[m].type = EVENT_START
       /\ events[k].a = events[m].a
       /\ orient2d(events[k].a, events[k].b, events[m].b) < 0
       /\ events[k].idx > events[m].idx
  /\ \E k \in 1..Len(events) : events[k].type = EVENT_END
  /\ StrictTotalOrder(Range(events))
  /\ PointEventFirst

\* ------------------------------------------------------------------------
\* C21
\* ------------------------------------------------------------------------
\* the flood fill of classifyFaces has finished on a list of triangles
Classified == pc \in {"filter", "done"} /\ index.cells # <<>>

\* edge j (1..3) of triangle number i (1-based) of the classifier's list, as
\* an unordered pair of point indices
EdgeAt(i, j) == {index.cells[i][j], index.cells[i][(j % 3) + 1]}

\* the triangles other than i that have the edge e
Across(i, e) ==
  {k \in 1..Len(index.cells) : k # i /\ \E j \in 1..3 : EdgeAt(k, j) = e}

\* crossing e counts when e is a constraint
CrossCost(e) == IF e \in ConstraintSet THEN 1 ELSE 0

MinOf(S) == CHOOSE x \in S : \A y \in S : x <= y

\* more than any number of crossings
Far == 3 * MaxPts

\* the crossings needed to enter triangle i directly from outside the
\* triangulated region
EntryCost(i) ==
  MinOf({Far} \cup {CrossCost(EdgeAt(i, j)) : j \in {m \in 1..3 : Across(i, EdgeAt(i, m)) = {}}})

RECURSIVE EntryCostsFrom(_)
EntryCostsFrom(i) ==
  IF i > Len(index.cells) THEN <<>> ELSE <<EntryCost(i)>> \o EntryCostsFrom(i + 1)

\* one round of relaxation of the crossing counts D over the shared edges,
\* for the triangles from i on
RECURSIVE RelaxFrom(_, _)
RelaxFrom(D, i) ==
  IF i > Len(D) THEN <<>>
  ELSE <<MinOf({D[i]} \cup UNION {{D[k] + CrossCost(EdgeAt(i, j)) : k \in Across(i, EdgeAt(i, j))} :
                                   j \in 1..3})>>
       \o RelaxFrom(D, i + 1)

RECURSIVE RelaxTimes(_, _)
RelaxTimes(D, n) == IF n = 0 THEN D ELSE RelaxTimes(RelaxFrom(D, 1), n - 1)

\* the smallest number of constrained edges crossed on a way from outside
\* to each triangle
Crossings == RelaxTimes(EntryCostsFrom(1), Len(index.cells))

\* C21: when the flood fill has finished, a triangle is flagged exterior (1)
\* exactly when the smallest number of constrained edges crossed on a way to
\* it from outside the triangulated region is even, and interior (-1)
\* exactly when that number is odd.
C21_CrossingParity ==
  Classified =>
    LET D == Crossings
    IN \A i \in 1..Len(index.cells) :
         /\ D[i] < Far
         /\ index.flags[i] = 1 <=> D[i] % 2 = 0
         /\ index.flags[i] = -1 <=> D[i] % 2 = 1

\* a classification with triangles at zero, one and two crossings
C21_Witness ==
  /\ Classified /\ WellFormed
  /\ LET D == Crossings
     IN \E i, j, k \in 1..Len(index.cells) :
          /\ D[i] = 0 /\ index.flags[i] = 1
          /\ D[j] = 1 /\ index.flags[j] = -1
          /\ D[k] = 2 /\ index.flags[k] = 1

\* ------------------------------------------------------------------------
\* C22
\* ------------------------------------------------------------------------
\* indexCells has returned and the flood fill has not started
Seeded ==
  /\ pc \in {"fill", "filter"}
  /\ side = 1
  /\ index = indexCells(stars, cedges)

\* the edges of triangle i that no other triangle has, split by whether
\* they are constraints
OpenSides(i) == {EdgeAt(i, j) : j \in {m \in 1..3 : Across(i, EdgeAt(i, m)) = {}}}
FreeOpenSides(i) == OpenSides(i) \ ConstraintSet
FixedOpenSides(i) == OpenSides(i) \cap ConstraintSet

InActive(i) == (i - 1) \in Range(index.active)
InNext(i) == (i - 1) \in Range(index.next)

ActiveSeeds ==
  \A i \in 1..Len(index.cells) :
    /\ InActive(i) <=> FreeOpenSides(i) # {}
    /\ index.flags[i] = (IF InActive(i) THEN 1 ELSE 0)

\* C22 as stated: after indexCells, a triangle is in the active fringe, with
\* flag 1, exactly when it has an unmatched edge that is not a constraint,
\* and in the next fringe exactly when it has an unmatched edge and all its
\* unmatched edges are constraints.
C22_Original ==
  Seeded =>
    /\ ActiveSeeds
    /\ \A i \in 1..Len(index.cells) :
         InNext(i) <=> (OpenSides(i) # {} /\ FreeOpenSides(i) = {})

\* C22 amended: the same for the active fringe; a triangle is in the next
\* fringe exactly when it has an unmatched edge that is a constraint,
\* whatever its other unmatched edges are.
C22_Seeds ==
  Seeded =>
    /\ ActiveSeeds
    /\ \A i \in 1..Len(index.cells) : InNext(i) <=> FixedOpenSides(i) # {}

\* the seeds of a triangulation with a triangle in the active fringe only
\* and a triangle in both fringes
C22_Witness ==
  /\ Seeded /\ WellFormed
  /\ \E i, k \in 1..Len(index.cells) :
       /\ InActive(i) /\ ~InNext(i)
       /\ InActive(k) /\ InNext(k)
       /\ index.flags[k] = 1
  /\ \A i \in 1..Len(index.cells) : InNext(i) <=> FixedOpenSides(i) # {}

\* ------------------------------------------------------------------------
\* C23
\* ------------------------------------------------------------------------
\* how often the list es holds the unordered pair e
Occurrences(es, e) == Cardinality({k \in 1..Len(es) : {es[k][1], es[k][2]} = e})

\* every edge of the Triangulation's list is (min, max) and the list is in
\* lexicographic order
CanonicalSorted ==
  /\ \A k \in 1..Len(cedges) : cedges[k][1] <= cedges[k][2]
  /\ \A k \in 1..(Len(cedges) - 1) :
       \/ cedges[k][1] < cedges[k + 1][1]
       \/ cedges[k][1] = cedges[k + 1][1] /\ cedges[k][2] <= cedges[k + 1][2]

\* isConstraint answers for both orders of every pair of indices, the first
\* index past the points included, whether the pair was supplied
MembershipExact ==
  \A i, j \in 0..Len(points) :
    /\ isConstraint(cedges, i, j) <=> {i, j} \in ConstraintSet
    /\ isConstraint(cedges, j, i) <=> {i, j} \in ConstraintSet

\* C23 as stated: the constraint sequence of the Triangulation stores every
\* edge as (min, max), is sorted lexicographically and holds each unordered
\* pair at most once, and isConstraint(i, j) and isConstraint(j, i) are true
\* exactly when {i, j} was supplied.
C23_Original ==
  Loaded =>
    /\ CanonicalSorted
    /\ \A k, m \in 1..Len(cedges) : cedges[k] = cedges[m] => k = m
    /\ MembershipExact

\* C23 amended: the sequence stores every edge as (min, max), is sorted
\* lexicographically and holds each unordered pair as often as the input
\* lists it, in either order; isConstraint(i, j) and isConstraint(j, i) are
\* true exactly when {i, j} was supplied.
C23_CanonicalEdges ==
  Loaded =>
    /\ CanonicalSorted
    /\ Len(cedges) = Len(edges)
    /\ \A e \in ConstraintSet : Occurrences(cedges, e) = Occurrences(edges, e)
    /\ MembershipExact

\* the input lists one edge twice, first from its larger index and then
\* from its smaller one, and another pair of points is no constraint
C23_Witness ==
  /\ Loaded
  /\ Len(edges) = 2
  /\ edges[1] = <<edges[2][2], edges[2][1]>>
  /\ edges[1][1] > edges[1][2]
  /\ cedges = <<edges[2], edges[2]>>
  /\ isConstraint(cedges, edges[1][1], edges[1][2])
  /\ \E i, j \in 0..(Len(points) - 1) : i # j /\ ~isConstraint(cedges, i, j)

\* ------------------------------------------------------------------------
\* C24
\* ------------------------------------------------------------------------
\* twice the signed area of the triangle (a, b, c) by the shoelace formula,
\* with x to the right and y upwards: positive when a, b, c run
\* counter-clockwise, negative when they run clockwise
Shoelace(a, b, c) ==
  a[1] * (b[2] - c[2]) + b[1] * (c[2] - a[2]) + c[1] * (a[2] - b[2])

CounterClockwise(a, b, c) == Shoelace(a, b, c) > 0
Clockwise(a, b, c) == Shoelace(a, b, c) < 0
OnOneLine(a, b, c) ==
  \E u, v, w \in {a, b, c} :
    /\ {u, v, w} = {a, b, c}
    /\ (v[1] - u[1]) * (w[2] - u[2]) = (w[1] - u[1]) * (v[2] - u[2])
    /\ (u = v \/ u = w \/ v = w \/ (v[1] - u[1]) * (w[2] - v[2]) = (w[1] - v[1]) * (v[2] - u[2]))

Orient2dReturned == pc = "predicateDone" /\ fout.fn = "orient2d"

\* the value as the spec gives it
OrientationValue ==
  fout.val = (fargs.a[2] - fargs.c[2]) * (fargs.b[1] - fargs.c[1])
               - (fargs.a[1] - fargs.c[1]) * (fargs.b[2] - fargs.c[2])

InCircleReturned == pc = "predicateDone" /\ fout.fn = "inCircle"

\* the sign of the value tells d inside, on or outside the circle through
\* a, b, c
InsideIsPositive ==
  /\ fout.val > 0 <=> StrictlyInsideCircumcircle(fargs.a, fargs.b, fargs.c, fargs.d)
  /\ fout.val = 0 <=> OnCircumcircle(fargs.a, fargs.b, fargs.c, fargs.d)

IndicesBelow == {m \in 0..(Len(fargs.a) - 1) : fargs.a[m + 1] < fargs.y}
IndicesAtMost == {m \in 0..(Len(fargs.a) - 1) : fargs.a[m + 1] <= fargs.y}
IndicesAtLeast == {m \in 0..(Len(fargs.a) - 1) : fargs.a[m + 1] >= fargs.y}
IndicesAbove == {m \in 0..(Len(fargs.a) - 1) : fargs.a[m + 1] > fargs.y}
IndicesEqual == {m \in 0..(Len(fargs.a) - 1) : fargs.a[m + 1] = fargs.y}

SmallestOr(S, none) ==
  IF S = {} THEN none ELSE CHOOSE m \in S : \A k \in S : m <= k
LargestOr(S, none) ==
  IF S = {} THEN none ELSE CHOOSE m \in S : \A k \in S : m >= k

Searched(fn) == pc = "searchDone" /\ fout.fn = fn

\* C26: on a sorted array bsearchGe returns the smallest index whose element
\* is >= the query and bsearchGt the smallest whose element is > it, the
\* array length when there is none; bsearchLt returns the largest index
\* whose element is < the query and bsearchLe the largest whose element is
\* <= it, -1 when there is none; bsearchEq returns an index whose element
\* equals the query, or -1 when no element does.
C26_Searches ==
  /\ Searched("bsearchGe") => fout.val = SmallestOr(IndicesAtLeast, Len(fargs.a))
  /\ Searched("bsearchGt") => fout.val = SmallestOr(IndicesAbove, Len(fargs.a))
  /\ Searched("bsearchLt") => fout.val = LargestOr(IndicesBelow, -1)
  /\ Searched("bsearchLe") => fout.val = LargestOr(IndicesAtMost, -1)
  /\ Searched("bsearchEq") =>
       IF IndicesEqual = {} THEN fout.val = -1 ELSE fout.val \in IndicesEqual

\* bsearchGt has skipped two elements equal to the query and returned the
\* index of the first larger one
C26_Witness ==
  /\ Searched("bsearchGt")
  /\ fargs.a = <<0, 1, 1, 2>> /\ fargs.y = 1
  /\ fout.val = 3

\* ------------------------------------------------------------------------
\* C27
\* ------------------------------------------------------------------------
\* The query coordinates are multiples of 2^-(MantBits+1); in that unit
\* they and the ring's coordinates are integers, and the position of the
\* point against the ring is decided without rounding.
Unit == Pow2(MantBits + 1)
InUnits(x) == x[1] * Pow2(x[2] + MantBits + 1)
PointInUnits(p) == <<InUnits(p[1]), InUnits(p[2])>>
VertexInUnits(v) == <<v[1] * Unit, v[2] * Unit>>

\* the edges of the ring as pairs of vertices, the closing edge included
RingEdges(r) ==
  {<<VertexInUnits(r[k]), VertexInUnits(r[(k % Len(r)) + 1])>> : k \in 1..Len(r)}

\* p is on the closed segment from e[1] to e[2]
OnEdge(p, e) ==
  /\ Cross(e[1], e[2], p) = 0
  /\ Min2(e[1][1], e[2][1]) <= p[1] /\ p[1] <= Max2(e[1][1], e[2][1])
  /\ Min2(e[1][2], e[2][2]) <= p[2] /\ p[2] <= Max2(e[1][2], e[2][2])

OnRing(p, r) == \E e \in RingEdges(r) : OnEdge(PointInUnits(p), e)

\* the two segments have a point in common
Touch(e, f) ==
  \/ OnEdge(e[1], f) \/ OnEdge(e[2], f) \/ OnEdge(f[1], e) \/ OnEdge(f[2], e)
  \/ /\ Sign(Cross(e[1], e[2], f[1])) * Sign(Cross(e[1], e[2], f[2])) < 0
     /\ Sign(Cross(f[1], f[2], e[1])) * Sign(Cross(f[1], f[2], e[2])) < 0

\* a ring of at least three distinct vertices whose edges meet only where
\* consecutive edges share their vertex
SimpleRing(r) ==
  /\ Len(r) >= 3
  /\ Distinct(r)
  /\ \A k, m \in 1..Len(r) :
       LET e == <<VertexInUnits(r[k]), VertexInUnits(r[(k % Len(r)) + 1])>>
           f == <<VertexInUnits(r[m]), VertexInUnits(r[(m % Len(r)) + 1])>>
       IN \/ k = m
          \/ /\ (k % Len(r)) + 1 = m
             /\ ~OnEdge(e[1], f) /\ ~OnEdge(f[2], e)
          \/ (m % Len(r)) + 1 = k
          \/ /\ (k % Len(r)) + 1 # m /\ (m % Len(r)) + 1 # k
             /\ ~Touch(e, f)

\* the winding number of the ring about a point that is not on it: the
\* edges that pass the point's height upwards with the point on their left,
\* less those that pass it downwards with the point on their right
Winding(p, r) ==
  Cardinality({e \in RingEdges(r) : e[1][2] <= p[2] /\ p[2] < e[2][2] /\ Cross(e[1], e[2], p) > 0})
  - Cardinality({e \in RingEdges(r) : e[2][2] <= p[2] /\ p[2] < e[1][2] /\ Cross(e[1], e[2], p) < 0})

\* p, not on the ring, is inside it: for a triangle it is on the same side
\* of the three edges, for longer rings the ring winds about it
InsideRing(p, r) ==
  IF Len(r) = 3
  THEN \/ \A e \in RingEdges(r) : Cross(e[1], e[2], PointInUnits(p)) > 0
       \/ \A e \in RingEdges(r) : Cross(e[1], e[2], PointInUnits(p)) < 0
  ELSE Winding(PointInUnits(p), r) # 0

\* C27: for a simple ring and a point that is not on the ring,
\* pointInPolygon returns true exactly when the point is inside the ring,
\* also when the point is at the height of a vertex or of a horizontal
\* edge.
C27_Original ==
  (PipReturned /\ SimpleRing(polygon) /\ ~OnRing(point, polygon))
    => (inside <=> InsideRing(point, polygon))

\* the same for the points that have integer coordinates, where no step of
\* the test rounds
C27_OnGrid ==
  (PipReturned /\ SimpleRing(polygon) /\ ~OnRing(point, polygon)
     /\ InUnits(point[1]) % Unit = 0 /\ InUnits(point[2]) % Unit = 0)
    => (inside <=> InsideRing(point, polygon))

\* ------------------------------------------------------------------------
\* C28
\* ------------------------------------------------------------------------
\* orient2d of the corners of t, in the order t lists them, is negative
Negative(t) == orient2d(Pt(t[1]), Pt(t[2]), Pt(t[3])) < 0

\* the triangles the sweep has emitted so far
SweepNegative == \A k \in 1..Len(cells) : Negative(cells[k])

\* the triangles the Triangulation holds
StarsNegative == Loaded => \A t \in TrisOf(stars) : Negative(t)

\* the two triangles that the flip of the edge on top of the stack inserts
Inserted == TrisOf(flip(stars, TopA, TopB)) \ TrisOf(stars)

FlipKeepsNegative ==
  AboutToFlip => (Cardinality(Inserted) = 2 /\ \A t \in Inserted : Negative(t))

\* the triangles cdt2d returns
ResultNegative == Returned => \A k \in 1..Len(result) : Negative(result[k])

\* C28: every triangle emitted by the sweep has strictly negative orient2d
\* of its three points in the order it lists them, every flip of the
\* refiner inserts two triangles of which the same is true, and so it is
\* true of all triangles cdt2d returns.
C28_OneOrientation ==
  /\ SweepNegative
  /\ StarsNegative
  /\ FlipKeepsNegative
  /\ ResultNegative

\* the refiner is about to flip an edge after an earlier flip, and the call
\* goes on to return the triangles
C28_Witness ==
  /\ AboutToFlip
  /\ Faces # TriSet(cells)
  /\ Len(cells) >= 3
  /\ Cardinality(Inserted) = 2
  /\ \A t \in Inserted : Negative(t)
  /\ SweepNegative

\* ------------------------------------------------------------------------
\* C29
\* ------------------------------------------------------------------------
\* a step of the flood fill, a pop or a swap
FillStep == pc = "fill" /\ index' # index

\* the step leaves every non-zero flag as it is
FlagsKept ==
  \A i \in 1..Len(index.flags) :
    index.flags[i] # 0 => index'.flags[i] = index.flags[i]

\* C29: during the flood fill of classifyFaces a flag that is not zero
\* never changes again: a triangle is flagged interior or exterior once, by
\* the seeding of indexCells or by the fill, and keeps that flag also when
\* it is popped from a later fringe with the opposite side.
C29_FlaggedOnce == [][FillStep => FlagsKept]_vars

\* the triangle about to be popped was flagged with the opposite side in an
\* earlier round, and the pop leaves its flag alone
C29_Witness ==
  /\ pc = "fill"
  /\ index.active # <<>>
  /\ side = -1
  /\ index.flags[Last(index.active) + 1] = 1
  /\ ClassifyPop(index, side).flags = index.flags
  /\ Len(index.flags) >= 2

\* ------------------------------------------------------------------------
\* C30
\* ------------------------------------------------------------------------
\* the stars after flip(i, j) followed by flip(a, b), a and b being the
\* vertices opposite (i, j) and (j, i) before the first flip
FlippedBack(st, i, j) ==
  flip(flip(st, i, j), opposite(st, i, j), opposite(st, j, i))

Restores(st, i, j) == TrisOf(FlippedBack(st, i, j)) = TrisOf(st)

\* C30 as stated: when the edge (i, j) has two incident triangles with the
\* opposite vertices a and b, flip(i, j) followed by flip(a, b) restores
\* exactly the original set of triangles, as cyclic index triples.
C30_Original ==
  Loaded => \A i, j \in Vertices : TwoTriangles(stars, i, j) => Restores(stars, i, j)

\* C30 amended: the same for an edge (i, j) whose opposite vertices a and b
\* are not joined by an edge before the first flip, as is the case for
\* every edge the refiner flips.
C30_FlipInvolution ==
  /\ Loaded => \A i, j \in Vertices :
       (TwoTriangles(stars, i, j) /\ FreshDiagonal(stars, i, j)) => Restores(stars, i, j)
  /\ AboutToFlip => (FreshDiagonal(stars, TopA, TopB) /\ Restores(stars, TopA, TopB))

\* the refiner is about to flip an edge of a triangulation of MaxPts points
\* and the flip changes the triangle set
C30_Witness ==
  /\ AboutToFlip
  /\ Len(points) = MaxPts
  /\ TwoTriangles(stars, TopA, TopB)
  /\ FreshDiagonal(stars, TopA, TopB)
  /\ TrisOf(flip(stars, TopA, TopB)) # TrisOf(stars)
  /\ Restores(stars, TopA, TopB)

=============================================================================
